---- MODULE Spec2Model ----
(***************************************************************************)
(* A model of the engagement-prediction service: the EngagementModel       *)
(* wrapper (ml/src/models/engagement_model.py), the FeatureEngineering     *)
(* transform pipeline (ml/src/features/feature_engineering.py), the        *)
(* extraction of DataProcessor (ml/src/preprocessing/data_processor.py)    *)
(* and the handlers of the serving adapter (ml/src/main.py).               *)
(*                                                                         *)
(* Python's None is the empty tuple and a present value v is <<v>>, so     *)
(* that an optional integer never meets a string in an equality.           *)
(***************************************************************************)
EXTENDS Integers, Sequences, FiniteSets, TLC

VARIABLES
    rin,    \* recommend_post_time: the call's receiver, arguments and clock
    rout,   \* recommend_post_time: the call's outcome, None while pending
    em,     \* the EngagementModel objects of a process, by object number
    disk,   \* the model directory: path -> artifact, None where no file is
    saved,  \* per identifier, the object state its last complete save wrote
    ret,    \* the last call on an object: what was called and its outcome
    calls,  \* how many state-changing calls (train/fit, save, load) were
            \* made; for the serving process, its scans of the directory
    fe,     \* the FeatureEngineering objects of a process, by object name
    fedisk, \* the pipeline files: path -> content, None where no file is
    fesaved, \* per path, the object state its last complete save wrote
    req,    \* the serving process's requests in flight, by client
    pin,    \* DataProcessor.preprocess: the frame it is called on
    pout,   \* DataProcessor.preprocess: the call's outcome, None while pending
    job     \* run_training_pipeline.py: the run's arguments, position and exit

recVars == <<rin, rout>>
emVars == <<em, disk, saved>>
feVars == <<fe, fedisk, fesaved>>
callVars == <<ret, calls>>
otherVars == <<req, pin, pout, job>>
vars == <<rin, rout, em, disk, saved, ret, calls, fe, fedisk, fesaved, req, pin, pout, job>>

None == <<>>
Some(v) == <<v>>

\* The value held by a present optional.
Val(o) == o[1]

\* The elements of a sequence.
Range(s) == {s[i] : i \in 1..Len(s)}

\* list.index: the first position of x in s (x is in s).
IndexOf(s, x) == CHOOSE i \in 1..Len(s) : s[i] = x /\ \A j \in 1..(i - 1) : s[j] # x

Abs(n) == IF n < 0 THEN -n ELSE n

\* The parts of the state a specification has no objects in.
NoRecommendationCall == rin = None /\ rout = None
NoModelObjects == em = <<>> /\ disk = <<>> /\ saved = <<>>
NoPipelineObjects == fe = <<>> /\ fedisk = <<>> /\ fesaved = <<>>
NoCalls == ret = None /\ calls = 0
NoRequests == req = <<>>
NoPreprocessCall == pin = None /\ pout = None
NoTrainingRun == job = <<>>

-----------------------------------------------------------------------------
(***************************************************************************)
(* EngagementModel.recommend_post_time                                     *)
(***************************************************************************)

\* range(7) and range(24) of the grid search, and its starting best score.
Days == 7
Hours == 24
InitialBestEngagement == -1

\* The rows of datetime the recommender reads: an absolute day number whose
\* weekday is day % 7, the hour and the minute.
Weekday(dt) == dt.day % Days

\* a < b on datetimes.
DtLess(a, b) ==
    \/ a.day < b.day
    \/ a.day = b.day /\ a.hour < b.hour
    \/ a.day = b.day /\ a.hour = b.hour /\ a.minute < b.minute

\* A fitted regressor: the algorithm it was created for, its fitted weights,
\* the column layout it was fitted on, and (XGBoost only) its
\* enable_categorical parameter.  The weights are opaque to the wrapper: a
\* regressor's response to a row is one of a family of surfaces over the row's
\* day and hour entries, shifted by the row's other entries.
RowEntry(row, names, f) == IF f \in Range(names) THEN row[IndexOf(names, f)] ELSE 0

RECURSIVE SumSeq(_)
SumSeq(s) == IF s = <<>> THEN 0 ELSE Head(s) + SumSeq(Tail(s))

OtherSum(row, names) ==
    SumSeq(row) - RowEntry(row, names, "day_of_week") - RowEntry(row, names, "hour_of_day")

\* The summed prediction (likes + shares + comments) of regressor reg for one
\* row, read in the layout reg was fitted on.
RegTotal(reg, row) ==
    LET w == reg.weights
        d == RowEntry(row, reg.fit_names, "day_of_week")
        h == RowEntry(row, reg.fit_names, "hour_of_day")
        o == OtherSum(row, reg.fit_names)
    IN CASE w.shape = "flat" -> w.level
         [] w.shape = "peak" -> w.level - (Abs(d - w.pd) + Abs(h - w.ph)) + o
         [] w.shape = "tie"  -> IF h = w.ph THEN w.level ELSE w.level - 1

\* The regressor rejects a row whose width is not the width it was fitted on.
RegAccepts(reg, row) == Len(row) = Len(reg.fit_names)

\* One iteration of the loop body of recommend_post_time for (day, hour): the
\* two column assignments, the prediction, and the strict comparison with the
\* best score so far.  st carries X_copy and the best combination so far.
TryCombination(st, day, hour, model, hour_idx, day_idx) ==
    LET X1 == [[st.X_copy EXCEPT ![hour_idx] = hour] EXCEPT ![day_idx] = day]
    IN IF st.failed THEN st
       ELSE IF model = None THEN [st EXCEPT !.failed = TRUE]
       ELSE IF ~RegAccepts(Val(model), X1) THEN [st EXCEPT !.failed = TRUE]
       ELSE LET total_engagement == RegTotal(Val(model), X1)
                better == total_engagement > st.best_engagement
            IN [X_copy |-> X1,
                best_engagement |-> IF better THEN total_engagement
                                    ELSE st.best_engagement,
                best_hour |-> IF better THEN Some(hour) ELSE st.best_hour,
                best_day |-> IF better THEN Some(day) ELSE st.best_day,
                ncalls |-> st.ncalls + 1,
                failed |-> FALSE]

\* for hour in range(24), from `hour` on, within one day.
RECURSIVE HourLoop(_, _, _, _, _, _)
HourLoop(hour, st, day, model, hour_idx, day_idx) ==
    IF hour = Hours \/ st.failed THEN st
    ELSE HourLoop(hour + 1,
                  TryCombination(st, day, hour, model, hour_idx, day_idx),
                  day, model, hour_idx, day_idx)

\* for day in range(7), from `day` on.
RECURSIVE GridSearch(_, _, _, _, _)
GridSearch(day, st, model, hour_idx, day_idx) ==
    IF day = Days \/ st.failed THEN st
    ELSE GridSearch(day + 1,
                    HourLoop(0, st, day, model, hour_idx, day_idx),
                    model, hour_idx, day_idx)

\* The comparison with the chosen hour left out at the hour itself.
HourPassedStrict(now, best_hour) == now.hour > best_hour

\* The comparison that rolls the recommendation a week forward.
HourPassed(now, best_hour) == now.hour >= best_hour

\* The next calendar occurrence of the chosen weekday and hour.
NextOccurrence(now, best_day, best_hour) ==
    LET d0 == (best_day - Weekday(now)) % Days
        days_ahead == IF d0 = 0 /\ HourPassed(now, best_hour) THEN Days ELSE d0
    IN [day |-> now.day + days_ahead, hour |-> best_hour, minute |-> 0]

\* The early exits raising to the caller instead of returning None.
NoRecommendationRaises(ncalls) ==
    [kind |-> "raise", dt |-> None, best_day |-> None, best_hour |-> None,
     ncalls |-> ncalls, X_copy |-> <<>>]

NoRecommendation(ncalls) ==
    [kind |-> "none", dt |-> None, best_day |-> None, best_hour |-> None,
     ncalls |-> ncalls, X_copy |-> <<>>]

\* recommend_post_time(X, feature_cols) on a model holding `model` and
\* `feature_names`, called at `now`.  xkind tells a numpy row from a pandas
\* frame, whose positional column assignment raises inside the guarded loop.
recommend_post_time(model, feature_names, X, xkind, feature_cols, now) ==
    LET cols == IF feature_cols = None THEN feature_names ELSE feature_cols
    IN IF cols = None THEN NoRecommendation(0)
       ELSE LET names == Val(cols)
            IN IF "hour_of_day" \notin Range(names) \/ "day_of_week" \notin Range(names)
               THEN NoRecommendation(0)
               ELSE IF xkind = "frame" THEN NoRecommendation(0)
               ELSE LET st == GridSearch(0,
                                [X_copy |-> X, best_engagement |-> InitialBestEngagement,
                                 best_hour |-> None, best_day |-> None,
                                 ncalls |-> 0, failed |-> FALSE],
                                model,
                                IndexOf(names, "hour_of_day"),
                                IndexOf(names, "day_of_week"))
                    IN IF st.failed THEN NoRecommendation(st.ncalls)
                       ELSE IF st.best_day = None
                       THEN [kind |-> "raise", dt |-> None, best_day |-> None,
                             best_hour |-> None, ncalls |-> st.ncalls,
                             X_copy |-> st.X_copy]
                       ELSE [kind |-> "datetime",
                             dt |-> Some(NextOccurrence(now, Val(st.best_day),
                                                        Val(st.best_hour))),
                             best_day |-> st.best_day, best_hour |-> st.best_hour,
                             ncalls |-> st.ncalls, X_copy |-> st.X_copy]

\* ---- the calls the recommender is checked on ----

\* The largest value of a row's entries other than hour and day.
MaxOther == 1

ClockHours == {0, 12, 23}
ClockMinutes == {0, 30}

\* Call times: every weekday, hours before, at and after the hours the
\* surfaces peak at, on and off the full hour.
Nows == [day : 0..(Days - 1), hour : ClockHours, minute : ClockMinutes]

\* Regressor responses: constant surfaces (zero, negative, positive), a
\* single peak at each weekday and several hours, negative peaked surfaces,
\* and surfaces whose maximum is attained once per day.
Surfaces ==
    [shape : {"flat"}, level : {-2, -1, 0, 5}, pd : {0}, ph : {0}]
    \cup [shape : {"peak"}, level : {100}, pd : 0..(Days - 1), ph : ClockHours]
    \cup [shape : {"peak"}, level : {-50}, pd : {0, 6}, ph : {12}]
    \cup [shape : {"tie"}, level : {10}, pd : {0}, ph : ClockHours]

\* An XGBoost regressor with weights w fitted on layout l.
Fitted(w, l) ==
    [alg |-> "xgboost", weights |-> w, fit_names |-> l, enable_categorical |-> Some(FALSE)]

RecFeatureLists ==
    { <<"hour_of_day", "day_of_week", "text_length">>,
      <<"text_length", "day_of_week", "hour_of_day">> }

NoTimeFeatureLists == { <<"text_length", "hour_of_day">>, <<"text_length">> }

\* The row handed in: the request's own hour and day and its other entries.
RecRow(names, other) ==
    [i \in 1..Len(names) |->
        IF names[i] = "hour_of_day" THEN 3
        ELSE IF names[i] = "day_of_week" THEN 2 ELSE other]

RecCall(m, fn, row, xk, fc, n) ==
    [model |-> m, feature_names |-> fn, X |-> row, xkind |-> xk,
     feature_cols |-> fc, now |-> n]

RecInputs ==
    \* a numpy row laid out as the model's feature_names, as /predict passes it
    { RecCall(Some(Fitted(w, l)), Some(l), RecRow(l, MaxOther), "ndarray", None, n) :
        w \in Surfaces, l \in {<<"hour_of_day", "day_of_week", "text_length">>},
        n \in Nows }
    \* the other layouts and other entries
    \cup { RecCall(Some(Fitted(w, l)), Some(l), RecRow(l, o), "ndarray", None, n) :
        w \in {x \in Surfaces : x.pd = 0 /\ x.ph = 12},
        l \in RecFeatureLists, o \in 0..MaxOther,
        n \in {t \in Nows : t.day \in {0, 1} /\ t.hour = 12} }
    \cup { RecCall(IF fitted
                    THEN Some(Fitted([shape |-> "peak", level |-> 100, pd |-> 6, ph |-> 23], l))
                    ELSE None,
                    Some(l), RecRow(l, 0), "ndarray", Some(l), n) :
        fitted \in BOOLEAN,
        l \in RecFeatureLists \cup NoTimeFeatureLists,
        n \in {t \in Nows : t.minute = 0} }
    \* a pandas frame, and a model that was never fitted
    \cup { RecCall(Some(Fitted(w, l)), Some(l), RecRow(l, 0), "frame", None, n) :
        w \in {x \in Surfaces : x.shape = "flat"}, l \in RecFeatureLists,
        n \in {t \in Nows : t.day = 0} }
    \cup { RecCall(None, None, <<3, 2, 0>>, "ndarray", fc, n) :
        fc \in {None} \cup {Some(l) : l \in RecFeatureLists \cup NoTimeFeatureLists},
        n \in {t \in Nows : t.day = 0} }

InitRec ==
    /\ NoRequests /\ NoPreprocessCall /\ NoTrainingRun
    /\ rin \in RecInputs
    /\ rout = None
    /\ NoModelObjects /\ NoPipelineObjects /\ NoCalls

RecommendPostTime ==
    /\ rout = None
    /\ rout' = Some(recommend_post_time(rin.model, rin.feature_names, rin.X,
                                        rin.xkind, rin.feature_cols, rin.now))
    /\ UNCHANGED <<otherVars, rin, emVars, callVars, feVars>>

NextRec == RecommendPostTime

SpecRec == InitRec /\ [][NextRec]_vars

-----------------------------------------------------------------------------
(***************************************************************************)
(* EngagementModel: construction, train, predict, importance, save, load   *)
(***************************************************************************)

\* __init__: an Uninitialized model of the given type.
NewModel(model_type) ==
    [model_type |-> model_type,
     model |-> None,
     feature_names |-> None,
     target_names |-> <<"likes", "shares", "comments">>,
     metrics |-> [train |-> None, val |-> None],
     feature_importance |-> <<>>]

\* Whether a regressor exposes an enable_categorical parameter (get_params).
HasEnableCategorical(reg) == reg.enable_categorical # None

\* _create_model / _optimize_hyperparameters, then fit on X_train: the
\* regressor of the model's type with the default parameters, or with the
\* searched ones (which switch enable_categorical on for XGBoost), fitted to
\* weights w on the training columns.
FitRegressor(model_type, optimized, w, cols) ==
    [alg |-> model_type,
     weights |-> w,
     fit_names |-> cols,
     enable_categorical |-> IF model_type = "xgboost" THEN Some(optimized) ELSE None]

\* The algorithm-native importance of the i-th fitted feature.
Importance(reg, i) == (reg.weights.level + i * (reg.weights.ph + 1)) % 3

\* sorted(..., key=importance, reverse=True): a stable descending insertion.
RECURSIVE InsertDesc(_, _)
InsertDesc(sorted, e) ==
    IF sorted = <<>> THEN <<e>>
    ELSE IF Head(sorted)[2] >= e[2] THEN <<Head(sorted)>> \o InsertDesc(Tail(sorted), e)
    ELSE <<e>> \o sorted

RECURSIVE SortDesc(_)
SortDesc(items) ==
    IF items = <<>> THEN <<>>
    ELSE InsertDesc(SortDesc(SubSeq(items, 1, Len(items) - 1)), items[Len(items)])

\* _calculate_feature_importance: feature -> importance, sorted descending.
calculate_feature_importance(reg, feature_names) ==
    SortDesc([i \in 1..Len(feature_names) |-> <<feature_names[i], Importance(reg, i)>>])

\* _calculate_metrics: the record stored for one split; it describes the
\* regressor it was computed from.  The average R2 is kept in twentieths and
\* the average MAE in thousandths.
calculate_metrics(reg, r2, mae) == [of |-> reg.weights, r2 |-> r2, mae |-> mae]

\* The selectors _create_model and the hyperparameter search know.
SupportedTypes == {"random_forest", "gradient_boosting", "xgboost", "lightgbm"}

\* train(X_train, y_train, X_val, y_val, optimize).  cols are X_train's
\* columns, w the weights fitting yields, has_val whether a validation split
\* was given, fail the step that raises ("none", "fit", "val").  With a
\* selector outside SupportedTypes, _create_model raises ValueError and the
\* search's objective fails on its unassigned model, after feature_names
\* was stored.
train(self, cols, w, has_val, optimize, r2, mae, fail) ==
    LET s1 == [self EXCEPT !.feature_names = Some(cols)]
        reg == FitRegressor(self.model_type, optimize /\ has_val, w, cols)
        s2 == [s1 EXCEPT !.model = Some(reg)]
        s3 == [s2 EXCEPT !.metrics.train = Some(calculate_metrics(reg, r2, mae))]
        s4 == IF has_val
              THEN [s3 EXCEPT !.metrics.val = Some(calculate_metrics(reg, r2, mae))]
              ELSE s3
        s5 == [s4 EXCEPT !.feature_importance = calculate_feature_importance(reg, cols)]
    IN CASE self.model_type \notin SupportedTypes
                         -> [self |-> s1, kind |-> "raise", err |-> "unsupported"]
         [] fail = "fit" -> [self |-> s1, kind |-> "raise", err |-> "fit"]
         [] fail = "val" -> [self |-> s3, kind |-> "raise", err |-> "val"]
         [] OTHER        -> [self |-> s5, kind |-> "ok", err |-> ""]

\* pd.cut(total, bins=[0, 50, 200, inf], labels=[low, medium, high]).
engagement_level(total) ==
    IF total > 0 /\ total <= 50 THEN "low"
    ELSE IF total > 50 /\ total <= 200 THEN "medium"
    ELSE IF total > 200 THEN "high"
    ELSE "nan"

\* The regressor's three targets for a row; they sum to RegTotal.  A tie
\* surface puts all of it on likes, the others spread it over the targets.
RegPredict(reg, row) ==
    LET t == RegTotal(reg, row)
        q == t \div 4
    IN IF reg.weights.shape = "tie"
       THEN [likes |-> t, shares |-> 0, comments |-> 0]
       ELSE [likes |-> t - 2 * q, shares |-> q, comments |-> q]

\* predict(X).  X is a one-row frame: its row and whether it holds an
\* object-typed column.  An object column is turned into a category column
\* when the model's type is xgboost; a regressor takes a category column only
\* if it is an XGBoost regressor with enable_categorical on, and no regressor
\* takes an object column.
predict(self, X) ==
    IF self.model = None
    THEN [kind |-> "raise", err |-> "not trained", value |-> None]
    ELSE LET reg == Val(self.model)
             categorical == X.has_object /\ self.model_type = "xgboost"
             refused ==
                \/ ~RegAccepts(reg, X.row)
                \/ X.has_object /\ ~categorical
                \/ categorical /\ reg.enable_categorical # Some(TRUE)
         IN IF refused
            THEN [kind |-> "raise", err |-> "regressor", value |-> None]
            ELSE LET p == RegPredict(reg, X.row)
                 IN [kind |-> "ok", err |-> "",
                     value |-> Some([likes |-> p.likes, shares |-> p.shares,
                                     comments |-> p.comments,
                                     engagement_level |->
                                        engagement_level(p.likes + p.shares + p.comments)])]

\* get_feature_importance(top_n): the first top_n entries, all when None.
get_feature_importance_least(self, top_n) ==
    [kind |-> "ok", err |-> "",
     value |-> Some(IF top_n = None THEN self.feature_importance
                    ELSE SubSeq(self.feature_importance,
                                IF Val(top_n) < Len(self.feature_importance)
                                THEN Len(self.feature_importance) - Val(top_n) + 1 ELSE 1,
                                Len(self.feature_importance)))]

get_feature_importance(self, top_n) ==
    [kind |-> "ok", err |-> "",
     value |-> Some(IF top_n = None THEN self.feature_importance
                    ELSE SubSeq(self.feature_importance, 1,
                                IF Val(top_n) < Len(self.feature_importance)
                                THEN Val(top_n) ELSE Len(self.feature_importance)))]

\* The two artifacts of an identifier.
ModelPath(filename) == filename \o ".joblib"
MetadataPath(filename) == filename \o "_metadata.joblib"

\* Metadata written without the importance mapping.
MetadataWithoutImportance(self) ==
    [model_type |-> self.model_type,
     feature_names |-> self.feature_names,
     target_names |-> self.target_names,
     metrics |-> self.metrics,
     feature_importance |-> <<>>]

\* What save writes as metadata.
Metadata(self) ==
    [model_type |-> self.model_type,
     feature_names |-> self.feature_names,
     target_names |-> self.target_names,
     metrics |-> self.metrics,
     feature_importance |-> self.feature_importance]

Truncated == [kind |-> "truncated"]

\* save(filename).  io tells how far the two joblib.dump calls get: "ok",
\* "model" (the first dump raises part-way), "metadata" (the second does).
save(self, dir, filename, io) ==
    IF self.model = None
    THEN [dir |-> dir, kind |-> "raise", err |-> "not trained"]
    ELSE LET d1 == [dir EXCEPT ![ModelPath(filename)] =
                        Some(IF io = "model" THEN Truncated
                             ELSE [kind |-> "regressor", v |-> Val(self.model)])]
             d2 == [d1 EXCEPT ![MetadataPath(filename)] =
                        Some(IF io = "metadata" THEN Truncated
                             ELSE [kind |-> "metadata", v |-> Metadata(self)])]
         IN CASE io = "model"    -> [dir |-> d1, kind |-> "raise", err |-> "io"]
              [] io = "metadata" -> [dir |-> d2, kind |-> "raise", err |-> "io"]
              [] OTHER           -> [dir |-> d2, kind |-> "ok", err |-> ""]

\* The step of load that switches a loaded XGBoost regressor to categorical
\* support; it reads the model_type the loader held before the metadata is read.
EnableCategoricalOnLoad(model_type, reg) ==
    IF model_type = "xgboost" /\ HasEnableCategorical(reg)
    THEN [reg EXCEPT !.enable_categorical = Some(TRUE)]
    ELSE reg

\* load(filename).
load(self, dir, filename) ==
    LET mfile == dir[ModelPath(filename)]
        dfile == dir[MetadataPath(filename)]
    IN IF mfile = None \/ dfile = None
       THEN [self |-> self, kind |-> "raise", err |-> "not found"]
       ELSE IF Val(mfile).kind # "regressor"
       THEN [self |-> self, kind |-> "raise", err |-> "unreadable"]
       ELSE LET s1 == [self EXCEPT !.model =
                          Some(EnableCategoricalOnLoad(self.model_type, Val(mfile).v))]
            IN IF Val(dfile).kind # "metadata"
               THEN [self |-> s1, kind |-> "raise", err |-> "unreadable"]
               ELSE LET md == Val(dfile).v
                    IN [self |-> [s1 EXCEPT !.model_type = md.model_type,
                                            !.feature_names = md.feature_names,
                                            !.target_names = md.target_names,
                                            !.metrics = md.metrics,
                                            !.feature_importance = md.feature_importance],
                        kind |-> "ok", err |-> ""]

\* ---- the processes the model objects are checked in ----

\* The trainer is the training process's model: it trains, saves and may load.
\* The server is a model constructed afterwards on the same directory, as the
\* serving process does: it loads and is read.  MaxCalls bounds the number
\* of train, save and load calls made in all.
MaxCalls == 3

Trainer == "trainer"
Objects == {Trainer, "server"}
\* The selectors objects are constructed with: two supported ones and one
\* that no branch of _create_model knows.
ModelTypes == {"xgboost", "random_forest", "svm"}
Filenames == {"m1", "m2"}
Paths == {ModelPath(f) : f \in Filenames} \cup {MetadataPath(f) : f \in Filenames}

TrainColumns == { <<"hour_of_day", "day_of_week", "text_length">>,
                  <<"text_length", "hour_of_day">> }
TrainWeights == { [shape |-> "peak", level |-> 100, pd |-> 2, ph |-> 12],
                  [shape |-> "flat", level |-> 0, pd |-> 0, ph |-> 0] }
R2Values == {18}
MaeValues == {1234}
PredictInputs ==
    { [row |-> <<3, 2, 1>>, has_object |-> FALSE],
      [row |-> <<1, 3>>, has_object |-> FALSE],
      [row |-> <<3, 2, 1>>, has_object |-> TRUE] }
TopNs == {None, Some(0), Some(2), Some(5)}

Call(op, obj, arg, before, disk_before, kind, err, value) ==
    [op |-> op, obj |-> obj, arg |-> arg, before |-> before,
     disk_before |-> disk_before, kind |-> kind, err |-> err, value |-> value]

InitModel ==
    /\ NoRequests /\ NoPreprocessCall /\ NoTrainingRun
    /\ em \in [Objects -> {NewModel(t) : t \in ModelTypes}]
    /\ disk = [p \in Paths |-> None]
    /\ saved = [f \in Filenames |-> None]
    /\ ret = None
    /\ calls = 0
    /\ NoRecommendationCall /\ NoPipelineObjects

Train(o) ==
    /\ ret = None
    /\ calls < MaxCalls
    /\ \E cols \in TrainColumns, w \in TrainWeights, has_val \in BOOLEAN,
          optimize \in BOOLEAN, r2 \in R2Values, mae \in MaeValues,
          fail \in {"none", "fit", "val"} :
          LET r == train(em[o], cols, w, has_val, optimize, r2, mae, fail)
          IN /\ fail = "val" => has_val
             /\ em' = [em EXCEPT ![o] = r.self]
             /\ ret' = Some(Call("train", o, Some([has_val |-> has_val]), em[o], disk,
                                 r.kind, r.err, None))
    /\ calls' = calls + 1
    /\ UNCHANGED <<otherVars, disk, saved, recVars, feVars>>

Predict(o) ==
    /\ ret = None
    /\ \E X \in PredictInputs :
          LET r == predict(em[o], X)
          IN ret' = Some(Call("predict", o, Some(X), em[o], disk, r.kind, r.err, r.value))
    /\ UNCHANGED <<otherVars, em, disk, saved, calls, recVars, feVars>>

GetFeatureImportance(o) ==
    /\ ret = None
    /\ \E top_n \in TopNs :
          LET r == get_feature_importance(em[o], top_n)
          IN ret' = Some(Call("get_feature_importance", o, Some(top_n), em[o], disk,
                              r.kind, r.err, r.value))
    /\ UNCHANGED <<otherVars, em, disk, saved, calls, recVars, feVars>>

Save(o) ==
    /\ ret = None
    /\ calls < MaxCalls
    /\ \E f \in Filenames, io \in {"ok", "model", "metadata"} :
          LET r == save(em[o], disk, f, io)
          IN /\ disk' = r.dir
             /\ saved' = IF r.kind = "ok" THEN [saved EXCEPT ![f] = Some(em[o])]
                         ELSE IF r.dir # disk THEN [saved EXCEPT ![f] = None]
                         ELSE saved
             /\ ret' = Some(Call("save", o, Some(f), em[o], disk, r.kind, r.err, None))
    /\ calls' = calls + 1
    /\ UNCHANGED <<otherVars, em, recVars, feVars>>

Load(o) ==
    /\ ret = None
    /\ calls < MaxCalls
    /\ \E f \in Filenames :
          LET r == load(em[o], disk, f)
          IN /\ em' = [em EXCEPT ![o] = r.self]
             /\ ret' = Some(Call("load", o, Some(f), em[o], disk, r.kind, r.err, None))
    /\ calls' = calls + 1
    /\ UNCHANGED <<otherVars, disk, saved, recVars, feVars>>

\* The caller takes the outcome of the call.
Return ==
    /\ ret # None
    /\ ret' = None
    /\ UNCHANGED <<otherVars, em, disk, saved, calls, recVars, feVars>>

NextModel ==
    \/ Return
    \/ Train(Trainer)
    \/ Save(Trainer)
    \/ \E o \in Objects :
        \/ Predict(o)
        \/ GetFeatureImportance(o)
        \/ Load(o)

SpecModel == InitModel /\ [][NextModel]_vars

-----------------------------------------------------------------------------
(***************************************************************************)
(* FeatureEngineering: fit, transform, feature names, save, load           *)
(*                                                                         *)
(* A frame is [columns, rows]: the column names and, per row, a function   *)
(* from column name to cell.  A numeric cell is an integer, a categorical  *)
(* cell a category, a text cell its sequence of tokens.  A cell of a       *)
(* transformed frame is a tuple of integers (see Scaled, OneHot, TfIdf).   *)
(***************************************************************************)

NumericalFeatures ==
    <<"followers_count", "following_count", "account_age",
      "text_length", "word_count", "avg_word_length",
      "sentiment_compound", "sentiment_positive", "sentiment_negative",
      "sentiment_neutral",
      "mention_count", "url_count", "exclamation_count", "question_count",
      "hashtag_count", "avg_hashtag_length", "follower_following_ratio",
      "hour_of_day", "day_of_week", "month">>
CategoricalFeatures == <<"media_type", "time_category", "is_weekend">>
TextFeature == "post_text"

\* __init__: a pipeline that has not been fitted.
NewPipeline ==
    [preprocessor |-> None,
     tfidf_vectorizer |-> None,
     numerical_features |-> NumericalFeatures,
     categorical_features |-> CategoricalFeatures,
     text_feature |-> TextFeature]

\* [f for f in features if f in df.columns]
Available(features, df) == SelectSeq(features, LAMBDA f : f \in Range(df.columns))

\* One column of a frame, top to bottom.
Column(df, c) == [i \in 1..Len(df.rows) |-> df.rows[i][c]]

RECURSIVE SumSquares(_)
SumSquares(s) == IF s = <<>> THEN 0 ELSE Head(s) * Head(s) + SumSquares(Tail(s))

\* StandardScaler.fit on one column: the count, sum and sum of squares that
\* determine mean_ and scale_.
FitScaler(xs) == [n |-> Len(xs), sum |-> SumSeq(xs), sumsq |-> SumSquares(xs)]

\* StandardScaler.transform of x: (x - mean_) / scale_, kept exact as
\* <<n*x - sum, n, n*sumsq - sum^2>>; a zero variance scales by 1.
Scaled(sc, x) == <<sc.n * x - sc.sum, sc.n, sc.n * sc.sumsq - sc.sum * sc.sum>>

\* The categories and the terms of the data, in sorted order.
CategoryOrder == <<"0", "1", "image", "text", "video">>
TermOrder == <<"cat", "dog", "the">>
StopWords == {"the"}

\* OneHotEncoder.fit on one column: categories_, the sorted distinct values.
FitCategories(xs) == SelectSeq(CategoryOrder, LAMBDA c : c \in Range(xs))

\* OneHotEncoder(handle_unknown='ignore').transform of one cell: one
\* indicator per fitted category, all zero for a category not seen in fit.
OneHot(cats, x) == [i \in 1..Len(cats) |-> IF cats[i] = x THEN <<1>> ELSE <<0>>]

\* How often term t occurs in a document.
Count(doc, t) == Len(SelectSeq(doc, LAMBDA u : u = t))

\* The number of documents term t occurs in.
DocFreq(docs, t) == Cardinality({i \in 1..Len(docs) : Count(docs[i], t) > 0})

\* TfidfVectorizer(max_features=100, min_df=2, max_df=0.8,
\* stop_words='english').fit: the sorted vocabulary of the terms that are no
\* stop words and occur in at least 2 and at most 0.8 * n documents, with
\* the n and document frequency that determine each idf weight.  fit raises
\* when no term remains.  (Fewer than 100 terms exist, so max_features
\* removes none.)
MinDf == 2
FitVocabulary(docs) ==
    SelectSeq(TermOrder,
              LAMBDA t : /\ t \notin StopWords
                         /\ DocFreq(docs, t) >= MinDf
                         /\ 10 * DocFreq(docs, t) <= 8 * Len(docs))

FitIdf(docs, vocabulary) ==
    [i \in 1..Len(vocabulary) |-> <<Len(docs), DocFreq(docs, vocabulary[i])>>]

\* A constructed TfidfVectorizer on which fit did not complete.
UnfittedVectorizer == [vocabulary |-> None, idf |-> <<>>]

RECURSIVE Flatten(_)
Flatten(ss) == IF ss = <<>> THEN <<>> ELSE Head(ss) \o Flatten(Tail(ss))

\* TfidfVectorizer.transform of one document, the cell of vocabulary term
\* i: tf * idf over the l2 norm of the document's row, kept exact as the
\* term's <<tf, n, df>> followed by those of every vocabulary term of the
\* row; <<0>> when the term does not occur.
TfIdf(vec, doc, i) ==
    LET voc == Val(vec.vocabulary)
        w(j) == <<Count(doc, voc[j]), vec.idf[j][1], vec.idf[j][2]>>
    IN IF Count(doc, voc[i]) = 0 THEN <<0>>
       ELSE w(i) \o Flatten([j \in 1..Len(voc) |-> w(j)])

\* fit(df).  The preprocessor is built and fitted on the listed columns the
\* frame has; the vectorizer is constructed and fitted only when the frame
\* has the text column, and is otherwise left as it was.
fit(self, df) ==
    LET num == Available(self.numerical_features, df)
        cat == Available(self.categorical_features, df)
        pre == [num |-> num,
                scaler |-> [i \in 1..Len(num) |-> FitScaler(Column(df, num[i]))],
                cat |-> cat,
                categories |-> [i \in 1..Len(cat) |-> FitCategories(Column(df, cat[i]))]]
        s1 == [self EXCEPT !.preprocessor = Some(pre)]
        docs == Column(df, self.text_feature)
        voc == FitVocabulary(docs)
    IN IF self.text_feature \notin Range(df.columns)
       THEN [self |-> s1, kind |-> "ok", err |-> ""]
       ELSE IF voc = <<>>
       THEN [self |-> [s1 EXCEPT !.tfidf_vectorizer = Some(UnfittedVectorizer)],
             kind |-> "raise", err |-> "no terms remain"]
       ELSE [self |-> [s1 EXCEPT !.tfidf_vectorizer =
                          Some([vocabulary |-> Some(voc), idf |-> FitIdf(docs, voc)])],
             kind |-> "ok", err |-> ""]

\* f"{col}_{cat}" for each category of one encoded column.
OneHotNames(col, cats) == [i \in 1..Len(cats) |-> col \o "_" \o cats[i]]

\* _get_feature_names: the scaled columns, then the one-hot columns.
preprocessor_feature_names(self) ==
    IF self.preprocessor = None THEN <<>>
    ELSE LET pre == Val(self.preprocessor)
         IN pre.num \o Flatten([i \in 1..Len(pre.cat) |->
                                   OneHotNames(pre.cat[i], pre.categories[i])])

\* [f'tfidf_{f}' for f in get_feature_names_out()]
TfidfNames(vec) ==
    LET voc == Val(vec.vocabulary) IN [i \in 1..Len(voc) |-> "tfidf_" \o voc[i]]

\* get_feature_names: the preprocessor's names, then the tf-idf names when
\* a vectorizer is held; an unfitted vectorizer raises.
get_feature_names(self) ==
    IF self.tfidf_vectorizer = None
    THEN [kind |-> "ok", err |-> "", value |-> Some(preprocessor_feature_names(self))]
    ELSE IF Val(self.tfidf_vectorizer).vocabulary = None
    THEN [kind |-> "raise", err |-> "not fitted", value |-> None]
    ELSE [kind |-> "ok", err |-> "",
          value |-> Some(preprocessor_feature_names(self)
                         \o TfidfNames(Val(self.tfidf_vectorizer)))]

\* pd.DataFrame(): no columns, no rows.
EmptyFrame == [columns |-> <<>>, rows |-> <<>>]

\* ColumnTransformer.transform of one row.
PreprocessRow(pre, row) ==
    [i \in 1..Len(pre.num) |-> Scaled(pre.scaler[i], row[pre.num[i]])]
    \o Flatten([i \in 1..Len(pre.cat) |-> OneHot(pre.categories[i], row[pre.cat[i]])])

\* transform(df).  Without a preprocessor an empty frame is returned.  The
\* preprocessor raises when a column it was fitted on is missing and drops
\* every other column; the tf-idf columns are appended only when a
\* vectorizer is held and the frame has the text column.
transform(self, df) ==
    IF self.preprocessor = None
    THEN [kind |-> "ok", err |-> "", value |-> Some(EmptyFrame)]
    ELSE LET pre == Val(self.preprocessor)
             base == [columns |-> preprocessor_feature_names(self),
                      rows |-> [i \in 1..Len(df.rows) |-> PreprocessRow(pre, df.rows[i])]]
         IN IF ~(Range(pre.num) \cup Range(pre.cat) \subseteq Range(df.columns))
            THEN [kind |-> "raise", err |-> "columns are missing", value |-> None]
            ELSE IF self.tfidf_vectorizer = None
                    \/ self.text_feature \notin Range(df.columns)
            THEN [kind |-> "ok", err |-> "", value |-> Some(base)]
            ELSE LET vec == Val(self.tfidf_vectorizer)
                 IN IF vec.vocabulary = None
                    THEN [kind |-> "raise", err |-> "not fitted", value |-> None]
                    ELSE [kind |-> "ok", err |-> "",
                          value |-> Some(
                            [columns |-> base.columns \o TfidfNames(vec),
                             rows |-> [i \in 1..Len(df.rows) |->
                                base.rows[i]
                                \o [j \in 1..Len(Val(vec.vocabulary)) |->
                                      TfIdf(vec, df.rows[i][self.text_feature], j)]]])]

\* A pipeline dictionary written without the vectorizer.
PipelineWithoutVectorizer(self) ==
    [preprocessor |-> self.preprocessor,
     tfidf_vectorizer |-> None,
     numerical_features |-> self.numerical_features,
     categorical_features |-> self.categorical_features,
     text_feature |-> self.text_feature]

\* The dictionary save writes.
PipelineDict(self) ==
    [preprocessor |-> self.preprocessor,
     tfidf_vectorizer |-> self.tfidf_vectorizer,
     numerical_features |-> self.numerical_features,
     categorical_features |-> self.categorical_features,
     text_feature |-> self.text_feature]

\* FeatureEngineering.save(filepath).  io tells whether joblib.dump
\* completes ("ok") or raises part-way ("fail").
save_pipeline(self, files, filepath, io) ==
    IF io = "ok"
    THEN [files |-> [files EXCEPT ![filepath] =
                        Some([kind |-> "dict", v |-> PipelineDict(self)])],
          kind |-> "ok", err |-> ""]
    ELSE [files |-> [files EXCEPT ![filepath] = Some(Truncated)],
          kind |-> "raise", err |-> "io"]

\* joblib.dump(feature_engineering, path) of the training script: the file
\* holds the object itself.
dump_pipeline(self, files, filepath) ==
    [files EXCEPT ![filepath] = Some([kind |-> "instance", v |-> self])]

\* FeatureEngineering.load(filepath): True with the five fields restored
\* from a dictionary or from a pickled object; False, with nothing
\* assigned, when the file cannot be read.
load_pipeline(self, files, filepath) ==
    LET file == files[filepath]
    IN IF file = None \/ Val(file).kind \notin {"dict", "instance"}
       THEN [self |-> self, value |-> FALSE]
       ELSE LET data == Val(file).v
            IN [self |-> [self EXCEPT !.preprocessor = data.preprocessor,
                                      !.tfidf_vectorizer = data.tfidf_vectorizer,
                                      !.numerical_features = data.numerical_features,
                                      !.categorical_features = data.categorical_features,
                                      !.text_feature = data.text_feature],
                value |-> TRUE]

\* ---- the processes the pipeline objects are checked in ----

\* The fitter is the training process's pipeline: it is fitted, saved and
\* dumped.  The server is a pipeline constructed afterwards: it loads and
\* transforms.  MaxCalls bounds the fit, save, dump and load calls in all.
Fitter == "fitter"
PipelineObjects == {Fitter, "server"}
PipelinePaths == {"fe1", "fe2"}

AllColumns == <<"followers_count", "hour_of_day", "media_type", "is_weekend",
                "post_text", "user_id">>
Without(c) == SelectSeq(AllColumns, LAMBDA x : x # c)
ColumnSets ==
    {AllColumns, Without("post_text"), Without("media_type"),
     Without("followers_count"), Without("user_id"), <<"hour_of_day", "post_text">>}

DataRow(f, h, m, w, t) ==
    [followers_count |-> f, hour_of_day |-> h, media_type |-> m, is_weekend |-> w,
     post_text |-> t, user_id |-> 7]

\* Two terms in two of three posts; two media types.
PostsA == << DataRow(0, 3, "image", "0", <<"cat", "dog">>),
             DataRow(10, 12, "video", "1", <<"the", "cat">>),
             DataRow(20, 12, "image", "0", <<"dog", "dog">>) >>
\* The only term is in every post, so none remains; three media types.
PostsB == << DataRow(5, 0, "image", "0", <<"cat">>),
             DataRow(5, 23, "text", "0", <<"cat", "the">>),
             DataRow(5, 7, "video", "0", <<"cat">>) >>
\* One term; one media type.
PostsC == << DataRow(1, 1, "video", "1", <<"dog">>),
             DataRow(3, 2, "video", "0", <<"dog", "cat">>),
             DataRow(8, 3, "video", "1", <<>>) >>
\* A single post, as a request carries.
PostsD == << DataRow(10, 12, "text", "1", <<"cat", "cat", "dog">>) >>
Posts == {PostsA, PostsB, PostsC, PostsD}

Frame(columns, rows) ==
    [columns |-> columns,
     rows |-> [i \in 1..Len(rows) |-> [c \in Range(columns) |-> rows[i][c]]]]

Frames == {Frame(cs, rs) : cs \in ColumnSets, rs \in Posts}

InitPipeline ==
    /\ NoRequests /\ NoPreprocessCall /\ NoTrainingRun
    /\ fe = [o \in PipelineObjects |-> NewPipeline]
    /\ fedisk = [p \in PipelinePaths |-> None]
    /\ fesaved = [p \in PipelinePaths |-> None]
    /\ NoCalls
    /\ NoRecommendationCall /\ NoModelObjects

Fit(o) ==
    /\ ret = None
    /\ calls < MaxCalls
    /\ \E df \in Frames :
          LET r == fit(fe[o], df)
          IN /\ fe' = [fe EXCEPT ![o] = r.self]
             /\ ret' = Some(Call("fit", o, Some(df), fe[o], fedisk, r.kind, r.err, None))
    /\ calls' = calls + 1
    /\ UNCHANGED <<otherVars, fedisk, fesaved, recVars, emVars>>

Transform(o) ==
    /\ ret = None
    /\ \E df \in Frames :
          LET r == transform(fe[o], df)
          IN ret' = Some(Call("transform", o, Some(df), fe[o], fedisk,
                              r.kind, r.err, r.value))
    /\ UNCHANGED <<otherVars, fe, fedisk, fesaved, calls, recVars, emVars>>

GetFeatureNames(o) ==
    /\ ret = None
    /\ LET r == get_feature_names(fe[o])
       IN ret' = Some(Call("get_feature_names", o, None, fe[o], fedisk,
                           r.kind, r.err, r.value))
    /\ UNCHANGED <<otherVars, fe, fedisk, fesaved, calls, recVars, emVars>>

SavePipeline(o) ==
    /\ ret = None
    /\ calls < MaxCalls
    /\ \E p \in PipelinePaths, io \in {"ok", "fail"} :
          LET r == save_pipeline(fe[o], fedisk, p, io)
          IN /\ fedisk' = r.files
             /\ fesaved' = [fesaved EXCEPT ![p] = IF r.kind = "ok" THEN Some(fe[o])
                                                 ELSE None]
             /\ ret' = Some(Call("save", o, Some(p), fe[o], fedisk, r.kind, r.err, None))
    /\ calls' = calls + 1
    /\ UNCHANGED <<otherVars, fe, recVars, emVars>>

DumpPipeline(o) ==
    /\ ret = None
    /\ calls < MaxCalls
    /\ \E p \in PipelinePaths :
          /\ fedisk' = dump_pipeline(fe[o], fedisk, p)
          /\ fesaved' = [fesaved EXCEPT ![p] = Some(fe[o])]
          /\ ret' = Some(Call("dump", o, Some(p), fe[o], fedisk, "ok", "", None))
    /\ calls' = calls + 1
    /\ UNCHANGED <<otherVars, fe, recVars, emVars>>

LoadPipeline(o) ==
    /\ ret = None
    /\ calls < MaxCalls
    /\ \E p \in PipelinePaths :
          LET r == load_pipeline(fe[o], fedisk, p)
          IN /\ fe' = [fe EXCEPT ![o] = r.self]
             /\ ret' = Some(Call("load", o, Some(p), fe[o], fedisk, "ok", "",
                                 Some(r.value)))
    /\ calls' = calls + 1
    /\ UNCHANGED <<otherVars, fedisk, fesaved, recVars, emVars>>

\* The caller takes the outcome of the call.
ReturnPipeline ==
    /\ ret # None
    /\ ret' = None
    /\ UNCHANGED <<otherVars, calls, feVars, recVars, emVars>>

NextPipeline ==
    \/ ReturnPipeline
    \/ Fit(Fitter)
    \/ SavePipeline(Fitter)
    \/ DumpPipeline(Fitter)
    \/ \E o \in PipelineObjects :
        \/ Transform(o)
        \/ GetFeatureNames(o)
        \/ LoadPipeline(o)

SpecPipeline == InitPipeline /\ [][NextPipeline]_vars

-----------------------------------------------------------------------------
(***************************************************************************)
(* The serving adapter: get_model and the /predict handler (main.py), with *)
(* the feature extraction of DataProcessor it calls.                       *)
(*                                                                         *)
(* A request is a PostData: post_text is [len, words] (its length in       *)
(* characters and its words), hashtags the comma-separated parts of the    *)
(* string (none for the empty string), timestamp an optional datetime, and *)
(* the three counts optional integers.                                     *)
(***************************************************************************)

\* datetime.month of a day number (months of 30 days).
Month(dt) == ((dt.day \div 30) % 12) + 1

\* astype(int64) // 10**9 of a datetime column: seconds since day 0.
UnixSeconds(dt) == ((dt.day * 24 + dt.hour) * 60 + dt.minute) * 60

\* DataProcessor._extract_temporal_features.get_time_category
get_time_category(hour) ==
    IF 5 <= hour /\ hour < 12 THEN "morning"
    ELSE IF 12 <= hour /\ hour < 17 THEN "afternoon"
    ELSE IF 17 <= hour /\ hour < 21 THEN "evening"
    ELSE "night"

\* The handler's own time-category bucket of an hour.
HandlerTimeCategory(hour) ==
    IF 0 <= hour /\ hour < 6 THEN "night"
    ELSE IF 6 <= hour /\ hour < 12 THEN "morning"
    ELSE IF 12 <= hour /\ hour < 18 THEN "afternoon"
    ELSE "evening"

\* len(x.split(',')) if x else 0
HashtagCount(hashtags) == Len(hashtags)

Max(a, b) == IF a >= b THEN a ELSE b
Min(a, b) == IF a <= b THEN a ELSE b

\* The columns of the frame the handler holds before the transform, in the
\* order they are created: the request's fields and the handler's time
\* fields, the columns preprocess adds, and the indicator columns.
ProcessedColumns ==
    <<"post_text", "media_type", "hashtags", "timestamp", "user_id",
      "followers_count", "following_count", "account_age",
      "hour_of_day", "day_of_week", "month",
      "is_weekend", "time_category",
      "text_length", "word_count", "avg_word_length",
      "sentiment_compound", "sentiment_positive", "sentiment_negative",
      "sentiment_neutral",
      "mention_count", "url_count", "exclamation_count", "question_count",
      "hashtag_count", "avg_hashtag_length", "follower_following_ratio",
      "media_type_image", "media_type_text", "media_type_video",
      "time_category_morning", "time_category_afternoon",
      "time_category_evening", "time_category_night",
      "is_weekend_0", "is_weekend_1">>

\* The columns whose cells are Python objects (strings).
ObjectColumns(post) ==
    {"post_text", "media_type", "hashtags", "user_id", "time_category"}
    \cup (IF post.account_age = None THEN {"account_age"} ELSE {})

Indicator(b) == IF b THEN 1 ELSE 0

\* prepare_features_for_prediction(post_dict) followed by the handler's
\* indicator columns (lines 174-204): the one row of processed_data, by
\* column.  ts is the request's timestamp, or the handler's clock when the
\* request has none; preprocess reads the time fields from it.  The texts
\* drawn hold no mentions, URLs or marks and score zero on every sentiment,
\* every hashtag drawn has three characters, and word lengths and the
\* follower ratio are taken as whole numbers.
ProcessedRow(post, now) ==
    LET ts == IF post.timestamp = None THEN now ELSE Val(post.timestamp)
        hour == ts.hour
        dow == Weekday(ts)
        followers == Val(post.followers_count)
        following == Val(post.following_count)
        words == Len(post.post_text.words)
    IN [c \in Range(ProcessedColumns) |->
        CASE c = "post_text" -> post.post_text.words
          [] c = "media_type" -> post.media_type
          [] c = "hashtags" -> post.hashtags
          [] c = "timestamp" -> ts
          [] c = "user_id" -> "unknown"
          [] c = "followers_count" -> followers
          [] c = "following_count" -> following
          [] c = "account_age" ->
                IF post.account_age = None THEN "unknown" ELSE Val(post.account_age)
          [] c = "hour_of_day" -> hour
          [] c = "day_of_week" -> dow
          [] c = "month" -> Month(ts)
          [] c = "is_weekend" -> IF dow >= 5 THEN "1" ELSE "0"
          [] c = "time_category" -> get_time_category(hour)
          [] c = "text_length" -> post.post_text.len
          [] c = "word_count" -> words
          [] c = "avg_word_length" ->
                IF words > 0 THEN post.post_text.len \div words ELSE 0
          [] c = "hashtag_count" -> HashtagCount(post.hashtags)
          [] c = "avg_hashtag_length" -> IF post.hashtags = <<>> THEN 0 ELSE 3
          [] c = "follower_following_ratio" -> followers \div Max(following, 1)
          [] c = "media_type_image" -> Indicator(post.media_type = "image")
          [] c = "media_type_text" -> Indicator(post.media_type = "text")
          [] c = "media_type_video" -> Indicator(post.media_type = "video")
          [] c = "time_category_morning" -> Indicator(HandlerTimeCategory(hour) = "morning")
          [] c = "time_category_afternoon" -> Indicator(HandlerTimeCategory(hour) = "afternoon")
          [] c = "time_category_evening" -> Indicator(HandlerTimeCategory(hour) = "evening")
          [] c = "time_category_night" -> Indicator(HandlerTimeCategory(hour) = "night")
          [] c = "is_weekend_0" -> Indicator(dow < 5)
          [] c = "is_weekend_1" -> Indicator(dow >= 5)
          [] OTHER -> 0]

\* Whether prepare_features_for_prediction raises: the follower ratio is
\* computed on the two counts, and a null count is no number.
PrepareRaises(post) == post.followers_count = None \/ post.following_count = None

\* One cell of features as the number the regressor reads, for the frame of
\* raw columns: fillna(0), then an object column factorized (its one value
\* gets code 0), a datetime column as seconds, the weekend flag as 0 or 1.
RawNumber(post, c, v) ==
    IF c \in ObjectColumns(post) THEN 0
    ELSE IF c = "timestamp" THEN UnixSeconds(v)
    ELSE IF c = "is_weekend" THEN (IF v = "1" THEN 1 ELSE 0)
    ELSE v

\* One cell of a transformed frame as the number the regressor reads: the
\* centred value of a scaled cell, the indicator of a one-hot cell, the
\* term frequency of a tf-idf cell.
CellNumber(cell) == IF Len(cell) = 3 THEN cell[1] \div cell[2] ELSE cell[1]

\* The frame of raw columns the handler falls back to (lines 210, 217) after
\* the dtype conversions of lines 221-230: [columns, row].
RawFeatures(post, now) ==
    LET r == ProcessedRow(post, now)
    IN [columns |-> ProcessedColumns,
        row |-> [i \in 1..Len(ProcessedColumns) |->
                    RawNumber(post, ProcessedColumns[i], r[ProcessedColumns[i]])]]

\* Lines 206-230: the transformed frame when the pipeline holds a
\* preprocessor and its transform returns, the raw columns otherwise.
ExtractFeatures(pipeline, post, now) ==
    IF pipeline.preprocessor = None THEN RawFeatures(post, now)
    ELSE LET r == transform(pipeline, [columns |-> ProcessedColumns,
                                       rows |-> <<ProcessedRow(post, now)>>])
         IN IF r.kind = "raise" THEN RawFeatures(post, now)
            ELSE LET f == Val(r.value)
                 IN [columns |-> f.columns,
                     row |-> [i \in 1..Len(f.columns) |-> CellNumber(f.rows[1][i])]]

\* An alignment that keeps the frame's own columns and appends the missing.
AlignKeepingExtras(features, feature_names) ==
    LET missing == SelectSeq(feature_names, LAMBDA f : f \notin Range(features.columns))
    IN [columns |-> features.columns \o missing,
        row |-> features.row \o [i \in 1..Len(missing) |-> 0]]

\* Lines 236-249: every missing name of feature_names is added with value
\* 0, then the frame is indexed by feature_names.
Align(features, feature_names) ==
    [columns |-> feature_names,
     row |-> [i \in 1..Len(feature_names) |->
                IF feature_names[i] \in Range(features.columns)
                THEN features.row[IndexOf(features.columns, feature_names[i])]
                ELSE 0]]

\* Lines 232-249: the frame handed to predict.
ModelInput(model, features) ==
    IF model.feature_names # None /\ Val(model.feature_names) # <<>>
    THEN Align(features, Val(model.feature_names))
    ELSE features

\* Confidence scores are whole multiples of 1 / 20^7: the base is a number
\* of twentieths and each of the six adjustments multiplies by 18/20
\* (0.9), 19/20 (0.95) or 20/20.
Twentieths == 20
Factors == 6
ConfidenceUnit == Twentieths ^ (Factors + 1)
Conf(twentieths) == twentieths * Twentieths ^ Factors

\* max(0.5, min(0.9, r2)) on a validation R2 given in twentieths; 0.7
\* when the model holds no validation metrics.
\* The base confidence with the upper clip of the validation R2 left out.
BaseConfidenceUnclipped(model) ==
    IF model.metrics.val # None
    THEN Max(10, Val(model.metrics.val).r2)
    ELSE 14

BaseConfidence(model) ==
    IF model.metrics.val # None
    THEN Max(10, Min(18, Val(model.metrics.val).r2))
    ELSE 14

\* The six adjustment factors, each in twentieths.
TextFactor(post) ==
    IF post.post_text.len < 10 THEN 18
    ELSE IF post.post_text.len > 500 THEN 19 ELSE 20

RatioFactor(post) ==
    LET f == Val(post.followers_count)
        g == Val(post.following_count)
    IN IF f > 0 /\ g > 0
       THEN (IF f > 100 * g THEN 18 ELSE IF 100 * f < g THEN 18 ELSE 20)
       ELSE 20

AgeFactor(post) == IF Val(post.account_age) < 30 THEN 18 ELSE 20

HashtagFactor(post) == IF HashtagCount(post.hashtags) > 10 THEN 19 ELSE 20

\* np.std / np.mean > 1.0 of the three predictions, for a positive mean:
\* the variance exceeds the squared mean.
VarianceFactor(p) ==
    LET s == p.likes + p.shares + p.comments
        sq == p.likes * p.likes + p.shares * p.shares + p.comments * p.comments
    IN IF s > 0 /\ 3 * sq - s * s > s * s THEN 18 ELSE 20

\* mean > 1000, or else mean < 5.
MagnitudeFactor(p) ==
    LET s == p.likes + p.shares + p.comments
    IN IF s > 3 * 1000 THEN 18 ELSE IF s < 3 * 5 THEN 18 ELSE 20

\* base_confidence * data_quality_score * prediction_confidence
CombinedScore(model, post, p) ==
    BaseConfidence(model) * TextFactor(post) * RatioFactor(post)
    * AgeFactor(post) * HashtagFactor(post)
    * VarianceFactor(p) * MagnitudeFactor(p)

\* The final clamp with its lower bound left out.
ClampUpperOnly(score) == Min(Conf(19), score)

\* max(0.5, min(0.95, score))
Clamp(score) == Max(Conf(10), Min(Conf(19), score))

\* The confidence score with a fallback of 0.5 for a failed computation.
ConfidenceFallbackHalf(model, post, p) ==
    IF post.account_age = None THEN Conf(10)
    ELSE Clamp(CombinedScore(model, post, p))

\* Lines 268-366: the confidence score of a response.  Comparing a null
\* account_age raises inside the guarded block, which then falls back to
\* 0.7.
ConfidenceScore(model, post, p) ==
    IF post.account_age = None THEN Conf(14)
    ELSE Clamp(CombinedScore(model, post, p))

\* strftime("%Y%m%d_%H%M%S") at the time a training run saves, for the runs
\* of two days, in time order.
Timestamps == <<"20240101_090000", "20240102_090000">>

\* The --model_type and --target choices of the training script, each in
\* the order Python compares the strings.
Algorithms == <<"gradient_boosting", "lightgbm", "random_forest", "xgboost">>
Targets == <<"comments", "engagement", "likes", "shares">>

\* The training runs whose artifacts the directory may hold.
Runs == [algorithm : {"random_forest", "xgboost"}, target : {"engagement"},
         timestamp : 1..Len(Timestamps)]

\* The identifier a run saves its model under, and the file it saves its
\* pipeline to.
model_filename(run) ==
    run.algorithm \o "_" \o run.target \o "_" \o Timestamps[run.timestamp]
fe_filename(timestamp) == "feature_engineering_" \o Timestamps[timestamp] \o ".pkl"

RunNames == {model_filename(r) : r \in Runs}
RunPaths == {ModelPath(f) : f \in RunNames} \cup {MetadataPath(f) : f \in RunNames}
FePaths == {fe_filename(t) : t \in 1..Len(Timestamps)}

RunOf(filename) == CHOOSE r \in Runs : model_filename(r) = filename
StampOf(path) == CHOOSE t \in 1..Len(Timestamps) : fe_filename(t) = path

\* Python's string order on two identifiers of that shape: the algorithm
\* decides, then the target, then the timestamp.
NameBefore(f, g) ==
    LET a == RunOf(f)
        b == RunOf(g)
        aa == IndexOf(Algorithms, a.algorithm)
        ba == IndexOf(Algorithms, b.algorithm)
        at == IndexOf(Targets, a.target)
        bt == IndexOf(Targets, b.target)
    IN \/ aa < ba
       \/ aa = ba /\ at < bt
       \/ aa = ba /\ at = bt /\ a.timestamp < b.timestamp

\* The string order on two pipeline files: the timestamp decides.
FileBefore(p, q) == StampOf(p) < StampOf(q)

\* sort(reverse=True)[0]: the greatest of the names present.
LatestModel(present) ==
    CHOOSE f \in present : \A g \in present \ {f} : NameBefore(g, f)
LatestPipeline(present) ==
    CHOOSE p \in present : \A q \in present \ {p} : FileBefore(q, p)

\* The globals count as initialized only once a model was loaded.
InitializedAndLoaded(engagement_model) ==
    engagement_model # None /\ Val(engagement_model).model # None

\* Line 85: whether an earlier request initialized the globals.
Initialized(engagement_model) == engagement_model # None

\* get_model: the process's model and pipeline.  On the first request they
\* are constructed, and the model file and the pipeline file that sort last
\* are loaded; a load that raises ends the attempt and leaves the objects
\* as they are by then.  Later requests get the same objects.
get_model(engagement_model, feature_engineering, dir, files) ==
    IF Initialized(engagement_model)
    THEN [engagement_model |-> Val(engagement_model),
          feature_engineering |-> Val(feature_engineering)]
    ELSE LET model_files == {f \in RunNames : dir[ModelPath(f)] # None}
             fe_files == {p \in FePaths : files[p] # None}
             loaded == load(NewModel("xgboost"), dir, LatestModel(model_files))
         IN IF model_files = {}
            THEN [engagement_model |-> NewModel("xgboost"),
                  feature_engineering |-> NewPipeline]
            ELSE IF loaded.kind = "raise" \/ fe_files = {}
            THEN [engagement_model |-> loaded.self,
                  feature_engineering |-> NewPipeline]
            ELSE [engagement_model |-> loaded.self,
                  feature_engineering |->
                      load_pipeline(NewPipeline, files,
                                    LatestPipeline(fe_files)).self]

\* get_feature_importance(top_n=10) of the handler.
TopFeatures == 10

\* The outcome of a request that ends in the handler's HTTP 500.
ServerError(post, now, extracted, handed) ==
    [op |-> "predict_engagement", post |-> post, now |-> now, status |-> 500,
     extracted |-> extracted, handed |-> handed, recommendation |-> None,
     response |-> None]

\* predict_engagement(post_data) at clock time `now`, on the objects
\* get_model returned.  The outcome records, next to the response, the frame
\* extraction and transform produced, the frame handed to predict, and how
\* the call of recommend_post_time ended.
predict_engagement(model, pipeline, post, now) ==
    IF PrepareRaises(post) THEN ServerError(post, now, None, None)
    ELSE
    LET features == ExtractFeatures(pipeline, post, now)
        X == ModelInput(model, features)
        r == predict(model, [row |-> X.row, has_object |-> FALSE])
    IN IF r.kind = "raise" THEN ServerError(post, now, Some(features), Some(X))
       ELSE
       LET prediction == Val(r.value)
           rec == recommend_post_time(model.model, model.feature_names, X.row,
                                      "ndarray", model.feature_names, now)
       IN      [op |-> "predict_engagement", post |-> post, now |-> now, status |-> 200,
                extracted |-> Some(features), handed |-> Some(X),
                recommendation |-> Some([kind |-> rec.kind, ncalls |-> rec.ncalls]),
                response |-> Some(
                  [likes |-> prediction.likes,
                   shares |-> prediction.shares,
                   comments |-> prediction.comments,
                   engagement_level |-> prediction.engagement_level,
                   feature_importance |->
                       Val(get_feature_importance(model, Some(TopFeatures)).value),
                   confidence_score |-> ConfidenceScore(model, post, prediction),
                   recommended_post_time |->
                       IF rec.kind = "datetime" THEN rec.dt ELSE None])]

\* Validation of the response against PredictionResponse: an
\* engagement_level that is no string (NaN) is coerced to one by a lenient
\* validator and rejected by a strict one, whichever is installed.
ValidateResponse(outcome, lenient) ==
    IF outcome.status = 200 /\ Val(outcome.response).engagement_level = "nan"
       /\ ~lenient
    THEN [outcome EXCEPT !.status = 500, !.response = None]
    ELSE outcome

\* ---- the serving process ----

\* The layouts a model in the directory may have been trained on: raw
\* column names, the columns of a fitted pipeline, and a layout with a
\* column that nothing produces any more.
RawLayout == <<"hour_of_day", "day_of_week", "text_length">>
PipelineLayout ==
    <<"followers_count", "hour_of_day", "media_type_image", "media_type_video",
      "is_weekend_0", "is_weekend_1", "tfidf_cat", "tfidf_dog">>
LegacyLayout == <<"day_of_week", "legacy_score", "hour_of_day", "followers_count">>

\* Responses that are zero, low, ordinary and very high, one that follows
\* the row, one that puts everything on likes, and one below zero
\* everywhere.
Ordinary == [shape |-> "flat", level |-> 60, pd |-> 0, ph |-> 0]
Following == [shape |-> "peak", level |-> 100, pd |-> 2, ph |-> 12]
Negative == [shape |-> "flat", level |-> -2, pd |-> 0, ph |-> 0]
ServeWeights ==
    [shape : {"flat"}, level : {0, 3, 60, 3300}, pd : {0}, ph : {0}]
    \cup {Following}
    \cup [shape : {"tie"}, level : {600}, pd : {0}, ph : {12}]

\* Validation R2 in twentieths: negative, below 0.5, between, 0.9, 1.
ServeR2 == {-5, 8, 13, 18, 20}

Trained(cols, w, has_val, r2) ==
    train(NewModel("xgboost"), cols, w, has_val, FALSE, r2, 1234, "none").self

EmptyDirectory == [p \in RunPaths |-> None]
NoPipelineFiles == [p \in FePaths |-> None]

\* The runs of the two days with the default algorithm, and a run of the
\* first and of the second day with another algorithm.
FirstRun == [algorithm |-> "xgboost", target |-> "engagement", timestamp |-> 1]
SecondRun == [FirstRun EXCEPT !.timestamp = Len(Timestamps)]
FirstForest == [FirstRun EXCEPT !.algorithm = "random_forest"]
SecondForest == [SecondRun EXCEPT !.algorithm = "random_forest"]

\* A directory holding one complete save, and the pipeline file of a
\* pipeline fitted on a frame.
Directory(m) == save(m, EmptyDirectory, model_filename(FirstRun), "ok").dir
PipelineFile(df) ==
    save_pipeline(fit(NewPipeline, df).self, NoPipelineFiles,
                  fe_filename(FirstRun.timestamp), "ok").files

\* Steps 2 to 4 of the training script: a model of the run's algorithm is
\* trained on a layout and saved under the run's identifier, and the
\* pipeline fitted on the run's frame is saved next to it under the same
\* timestamp.
TrainingRun(setup, run, cols, w, df) ==
    [dir |-> save(train(NewModel(run.algorithm), cols, w, FALSE, FALSE, 18, 1230,
                        "none").self,
                  setup.dir, model_filename(run), "ok").dir,
     files |-> save_pipeline(fit(NewPipeline, df).self, setup.files,
                             fe_filename(run.timestamp), "ok").files]

Setup(dir, files) == [dir |-> dir, files |-> files]

\* What the first request finds: nothing; a model alone, over the
\* responses and the validation scores, with and without validation
\* metrics; a model next to a pipeline fitted on all columns, one fitted
\* without the text column, and one whose vectorizer fit raised; and an
\* older complete save under a latest one whose metadata was cut short; a
\* model that predicts below zero, alone and next to such a pipeline; and
\* the artifacts of two training runs, of the same and of different
\* algorithms.
ServeSetups ==
    { Setup(EmptyDirectory, NoPipelineFiles),
      Setup(EmptyDirectory, PipelineFile(Frame(AllColumns, PostsA))),
      Setup(Directory(Trained(RawLayout, Ordinary, FALSE, 13)), NoPipelineFiles),
      Setup(save(Trained(RawLayout, Ordinary, TRUE, 13),
                 Directory(Trained(RawLayout, Ordinary, TRUE, 13)),
                 model_filename(SecondRun), "metadata").dir,
            NoPipelineFiles) }
    \cup { Setup(Directory(Trained(RawLayout, w, TRUE, 13)), NoPipelineFiles) :
             w \in ServeWeights }
    \cup { Setup(Directory(Trained(RawLayout, Ordinary, TRUE, r2)), NoPipelineFiles) :
             r2 \in ServeR2 }
    \cup { Setup(Directory(Trained(PipelineLayout, w, TRUE, 18)),
                 PipelineFile(Frame(AllColumns, PostsA))) :
             w \in {Ordinary, Following} }
    \cup { Setup(Directory(Trained(cols, Following, TRUE, 8)), PipelineFile(df)) :
             cols \in {PipelineLayout, LegacyLayout},
             df \in {Frame(Without("post_text"), PostsC), Frame(AllColumns, PostsB)} }
    \cup { Setup(Directory(Trained(LegacyLayout, w, TRUE, 13)), NoPipelineFiles) :
             w \in {Ordinary, Following} }
    \cup { Setup(Directory(Trained(LegacyLayout, Negative, TRUE, 13)), files) :
             files \in {NoPipelineFiles, PipelineFile(Frame(AllColumns, PostsB))} }
    \cup { TrainingRun(TrainingRun(Setup(EmptyDirectory, NoPipelineFiles),
                                    first, RawLayout, Ordinary,
                                    Frame(Without("post_text"), PostsC)),
                        second, PipelineLayout, Following, Frame(AllColumns, PostsA)) :
             first \in {FirstRun, FirstForest}, second \in {SecondRun, SecondForest} }

\* n hashtags joined by commas.
Tags(n) == [i \in 1..n |-> "tag"]

Texts == { [len |-> 0, words |-> <<>>],
           [len |-> 9, words |-> <<"the", "cat">>],
           [len |-> 40, words |-> <<"cat", "cat", "dog">>],
           [len |-> 501, words |-> <<"dog">>] }

\* followers_count and following_count: both zero, ordinary, the two
\* extreme ratios, and a null count.
Counts == { <<Some(0), Some(0)>>, <<Some(50), Some(10)>>, <<Some(1000), Some(1)>>,
            <<Some(1), Some(1000)>>, <<None, Some(10)>> }

AccountAges == {None, Some(0), Some(365)}

PostData(text, media_type, hashtags, timestamp, counts, account_age) ==
    [post_text |-> text, media_type |-> media_type, hashtags |-> hashtags,
     timestamp |-> timestamp, user_id |-> None,
     followers_count |-> counts[1], following_count |-> counts[2],
     account_age |-> account_age]

Requests ==
    { PostData(t, "image", Tags(0), None, c, a) :
        t \in Texts, c \in Counts, a \in AccountAges }
    \cup { PostData(t, "text", Tags(11), None, c, Some(0)) :
             t \in Texts, c \in {<<Some(0), Some(0)>>, <<Some(1000), Some(1)>>} }
    \cup { PostData([len |-> 40, words |-> <<"cat", "cat", "dog">>], m, Tags(2),
                    Some([day |-> 12, hour |-> 5, minute |-> 15]),
                    <<Some(50), Some(10)>>, Some(365)) :
             m \in {"video", "gif"} }

ServeClock == { [day |-> 2, hour |-> 12, minute |-> 0],
                [day |-> 6, hour |-> 23, minute |-> 30] }

\* The process starts with its globals unset.
InitServe ==
    /\ NoRequests /\ NoPreprocessCall /\ NoTrainingRun
    /\ em = None
    /\ fe = None
    /\ \E s \in ServeSetups : disk = s.dir /\ fedisk = s.files
    /\ saved = <<>> /\ fesaved = <<>>
    /\ NoCalls
    /\ NoRecommendationCall

\* One /predict request: the get_model dependency, then the handler.
PredictEngagement ==
    /\ ret = None
    /\ \E post \in Requests, now \in ServeClock :
          LET deps == get_model(em, fe, disk, fedisk)
              outcome == predict_engagement(deps.engagement_model,
                                            deps.feature_engineering, post, now)
          IN /\ em' = Some(deps.engagement_model)
             /\ fe' = Some(deps.feature_engineering)
             /\ \E lenient \in BOOLEAN : ret' = Some(ValidateResponse(outcome, lenient))
    /\ UNCHANGED <<otherVars, disk, saved, fedisk, fesaved, calls, recVars>>

NextServe ==
    \/ PredictEngagement
    \/ Return

SpecServe == InitServe /\ [][NextServe]_vars

\* ---- the serving process under concurrent requests ----

\* round(value, 2) on a value in thousandths that is no tie; a value in
\* twentieths has two decimals already.
Round2(thousandths) == ((thousandths + 5) \div 10) * 10

RoundedSplit(split) ==
    IF split = None THEN None
    ELSE Some([Val(split) EXCEPT !.mae = Round2(@)])

\* GET /metrics/performance: get_metrics() hands out the model's own
\* metrics dictionary, and the handler rounds its values in place.
get_model_performance(model) ==
    LET rounded == [train |-> RoundedSplit(model.metrics.train),
                    val |-> RoundedSplit(model.metrics.val)]
    IN [self |-> [model EXCEPT !.metrics = rounded],
        status |-> 200,
        response |->
          [metrics |-> rounded,
           model_info |->
             [model_type |-> model.model_type,
              target_names |-> model.target_names,
              feature_count |-> IF model.feature_names = None THEN 0
                                ELSE Len(Val(model.feature_names))]]]

\* GET /metrics/feature-importance?top_n=n: a rounded copy of the first n
\* importances; a loaded model holds no SHAP values.
feature_importance_handler(model, top_n) ==
    [self |-> model,
     status |-> 200,
     response |->
       [feature_importance |-> Val(get_feature_importance(model, Some(top_n)).value),
        shap_values |-> None]]

\* GET /metrics/content-analysis: fixed figures.
get_content_analysis(model) ==
    [self |-> model, status |-> 200, response |-> "content_analysis"]

Clients == {"c1", "c2"}
Endpoints == {"predict", "performance", "feature_importance", "content_analysis"}

\* A cap on the directory scans of one behaviour.
MaxLoads == 3

Idle == [pc |-> "idle", endpoint |-> "", status |-> 0]
Resolved(endpoint) == [pc |-> "resolved", endpoint |-> endpoint, status |-> 0]
Done(endpoint, status) == [pc |-> "done", endpoint |-> endpoint, status |-> status]

HandlerPosts ==
    { PostData([len |-> 40, words |-> <<"cat", "cat", "dog">>], "image", Tags(2),
               None, c, Some(365)) :
        c \in {<<Some(50), Some(10)>>, <<None, Some(10)>>} }
HandlerClock == { [day |-> 2, hour |-> 12, minute |-> 0] }

InitHandlers ==
    /\ em = None
    /\ fe = None
    /\ \E s \in ServeSetups : disk = s.dir /\ fedisk = s.files
    /\ saved = <<>> /\ fesaved = <<>>
    /\ NoCalls
    /\ NoRecommendationCall /\ NoPreprocessCall /\ NoTrainingRun
    /\ req = [c \in Clients |-> Idle]

\* A request arrives and its get_model dependency is resolved.  get_model
\* never awaits, so no other request runs inside it; calls counts the
\* directory scans.
GetModel(c) ==
    /\ req[c].pc = "idle"
    /\ calls < MaxLoads
    /\ LET deps == get_model(em, fe, disk, fedisk)
       IN /\ em' = Some(deps.engagement_model)
          /\ fe' = Some(deps.feature_engineering)
    /\ calls' = IF Initialized(em) THEN calls ELSE calls + 1
    /\ \E e \in Endpoints : req' = [req EXCEPT ![c] = Resolved(e)]
    /\ UNCHANGED <<job, pin, pout, disk, saved, fedisk, fesaved, ret, recVars>>

\* The handlers run on the process's objects, which the dependency handed
\* out by reference.
HandlePredict(c) ==
    /\ req[c] = Resolved("predict")
    /\ \E post \in HandlerPosts, now \in HandlerClock, lenient \in BOOLEAN :
          LET outcome == ValidateResponse(
                             predict_engagement(Val(em), Val(fe), post, now), lenient)
          IN req' = [req EXCEPT ![c] = Done("predict", outcome.status)]
    /\ UNCHANGED <<job, pin, pout, emVars, feVars, callVars, recVars>>

HandlePerformance(c) ==
    /\ req[c] = Resolved("performance")
    /\ LET r == get_model_performance(Val(em))
       IN /\ em' = Some(r.self)
          /\ req' = [req EXCEPT ![c] = Done("performance", r.status)]
    /\ UNCHANGED <<job, pin, pout, disk, saved, feVars, callVars, recVars>>

HandleFeatureImportance(c) ==
    /\ req[c] = Resolved("feature_importance")
    /\ \E top_n \in {0, 2, TopFeatures} :
          LET r == feature_importance_handler(Val(em), top_n)
          IN /\ em' = Some(r.self)
             /\ req' = [req EXCEPT ![c] = Done("feature_importance", r.status)]
    /\ UNCHANGED <<job, pin, pout, disk, saved, feVars, callVars, recVars>>

HandleContentAnalysis(c) ==
    /\ req[c] = Resolved("content_analysis")
    /\ LET r == get_content_analysis(Val(em))
       IN /\ em' = Some(r.self)
          /\ req' = [req EXCEPT ![c] = Done("content_analysis", r.status)]
    /\ UNCHANGED <<job, pin, pout, disk, saved, feVars, callVars, recVars>>

\* The response is sent and the client may ask again.
Respond(c) ==
    /\ req[c].pc = "done"
    /\ req' = [req EXCEPT ![c] = Idle]
    /\ UNCHANGED <<job, pin, pout, emVars, feVars, callVars, recVars>>

NextHandlers ==
    \E c \in Clients :
        \/ GetModel(c)
        \/ HandlePredict(c)
        \/ HandlePerformance(c)
        \/ HandleFeatureImportance(c)
        \/ HandleContentAnalysis(c)
        \/ Respond(c)

SpecHandlers == InitHandlers /\ [][NextHandlers]_vars

-----------------------------------------------------------------------------
(***************************************************************************)
(* DataProcessor.preprocess on a one-row frame                             *)
(***************************************************************************)

\* A cell of a frame: None in an object column, NaN or NaT in a typed one,
\* or a value.
Null == [k |-> "none"]
NaN == [k |-> "nan"]
Value(v) == [k |-> "val", v |-> v]

\* df[name] = cell
WithColumn(df, name, cell) ==
    [cols |-> df.cols \cup {name},
     row |-> [c \in df.cols \cup {name} |-> IF c = name THEN cell ELSE df.row[c]]]

\* _extract_temporal_features: nothing without a timestamp column; a null
\* timestamp is NaT, whose hour, weekday and month are NaN, which is no
\* weekend day and falls through every time bucket to night.
extract_temporal_features(df) ==
    IF "timestamp" \notin df.cols THEN df
    ELSE LET ts == df.row["timestamp"]
             known == ts.k = "val"
             hour == IF known THEN Value(ts.v.hour) ELSE NaN
             dow == IF known THEN Value(Weekday(ts.v)) ELSE NaN
             month == IF known THEN Value(Month(ts.v)) ELSE NaN
             weekend == IF known /\ Weekday(ts.v) >= 5 THEN Value(1) ELSE Value(0)
             category == IF known THEN Value(get_time_category(ts.v.hour))
                         ELSE Value("night")
         IN WithColumn(WithColumn(WithColumn(WithColumn(WithColumn(
                df, "hour_of_day", hour), "day_of_week", dow), "month", month),
                "is_weekend", weekend), "time_category", category)

TextColumns ==
    <<"sentiment_compound", "sentiment_positive", "sentiment_negative",
      "sentiment_neutral", "mention_count", "url_count", "exclamation_count",
      "question_count">>

RECURSIVE WithZeros(_, _)
WithZeros(df, names) ==
    IF names = <<>> THEN df
    ELSE WithZeros(WithColumn(df, Head(names), Value(0)), Tail(names))

\* _extract_text_features: nothing without a post_text column; a null text
\* counts as the empty string.  The texts drawn hold no mentions, URLs or
\* marks and score zero on every sentiment.
extract_text_features(df) ==
    IF "post_text" \notin df.cols THEN df
    ELSE LET t == df.row["post_text"]
             text == IF t.k = "val" THEN t.v ELSE [len |-> 0, words |-> <<>>]
             words == Len(text.words)
         IN WithZeros(
              WithColumn(WithColumn(WithColumn(
                df, "text_length", Value(text.len)), "word_count", Value(words)),
                "avg_word_length", Value(IF words > 0 THEN text.len \div words ELSE 0)),
              TextColumns)

\* _extract_hashtag_features: nothing without a hashtags column; anything
\* but a non-empty string counts zero.  Every hashtag drawn has three
\* characters.
extract_hashtag_features(df) ==
    IF "hashtags" \notin df.cols THEN df
    ELSE LET h == df.row["hashtags"]
             tags == IF h.k = "val" THEN h.v ELSE <<>>
         IN WithColumn(WithColumn(df, "hashtag_count", Value(Len(tags))),
                       "avg_hashtag_length", Value(IF tags = <<>> THEN 0 ELSE 3))

\* _extract_user_features: the ratio only when both count columns exist.  A
\* None count raises TypeError in the division or in max; a NaN count gives
\* NaN.
extract_user_features(df) ==
    IF ~({"followers_count", "following_count"} \subseteq df.cols)
    THEN [kind |-> "ok", df |-> df]
    ELSE LET f == df.row["followers_count"]
             g == df.row["following_count"]
         IN IF f.k = "none" \/ g.k = "none" THEN [kind |-> "raise", df |-> df]
            ELSE [kind |-> "ok",
                  df |-> WithColumn(df, "follower_following_ratio",
                                    IF f.k = "nan" \/ g.k = "nan" THEN NaN
                                    ELSE Value(f.v \div Max(g.v, 1)))]

\* _handle_missing_values: NaN in a numerical column becomes 0 and None in
\* an object column "unknown"; a datetime column keeps its NaT.
handle_missing_values(df) ==
    [cols |-> df.cols,
     row |-> [c \in df.cols |->
                IF c = "timestamp" THEN df.row[c]
                ELSE IF df.row[c].k = "nan" THEN Value(0)
                ELSE IF df.row[c].k = "none" THEN Value("unknown")
                ELSE df.row[c]]]

\* preprocess(df)
preprocess(df) ==
    LET user == extract_user_features(
                  extract_hashtag_features(
                    extract_text_features(
                      extract_temporal_features(df))))
    IN IF user.kind = "raise" THEN [kind |-> "raise", df |-> df]
       ELSE [kind |-> "ok", df |-> handle_missing_values(user.df)]

\* ---- the frames preprocess is checked on ----

\* A record always has its text, media type and hashtags; the text and the
\* hashtags may be null.  The other fields may be absent, null (None in a
\* frame built from one dict, NaN in one read from a file) or set.
Absent == [k |-> "absent"]
FieldChoices ==
    [post_text : {Null, Value([len |-> 0, words |-> <<>>]),
                  Value([len |-> 9, words |-> <<"the", "cat">>])},
     media_type : {Value("image")},
     hashtags : {Null, Value(<<>>), Value(<<"tag", "tag">>)},
     timestamp : {Absent, Null, Value([day |-> 12, hour |-> 5, minute |-> 15]),
                  Value([day |-> 6, hour |-> 23, minute |-> 30])},
     followers_count : {Absent, Null, NaN, Value(0), Value(50)},
     following_count : {Absent, Null, NaN, Value(0), Value(10)},
     account_age : {Absent, Null, Value(365)}]

RecordFields == DOMAIN CHOOSE r \in FieldChoices : TRUE

\* pd.DataFrame([record]): the columns of the fields that are there.
RecordFrame(r) ==
    [cols |-> {c \in RecordFields : r[c] # Absent},
     row |-> [c \in {c \in RecordFields : r[c] # Absent} |-> r[c]]]

PreprocessInputs == {RecordFrame(r) : r \in FieldChoices}

InitPreprocess ==
    /\ pin \in {Some(df) : df \in PreprocessInputs}
    /\ pout = None
    /\ NoRecommendationCall /\ NoModelObjects /\ NoPipelineObjects /\ NoCalls
    /\ NoRequests /\ NoTrainingRun

Preprocess ==
    /\ pout = None
    /\ pout' = Some(preprocess(Val(pin)))
    /\ UNCHANGED <<job, pin, req, recVars, emVars, feVars, callVars>>

NextPreprocess == Preprocess

SpecPreprocess == InitPreprocess /\ [][NextPreprocess]_vars

-----------------------------------------------------------------------------
(***************************************************************************)
(* run_training_pipeline.py: one run of the training script, step by step  *)
(***************************************************************************)

TargetColumns == {"likes", "shares", "comments"}

\* split_data without its check of the target columns.
split_data_unchecked(columns) == [kind |-> "ok", err |-> ""]

\* split_data refuses a frame that lacks one of the three target columns.
split_data(columns) ==
    IF TargetColumns \subseteq columns
    THEN [kind |-> "ok", err |-> ""]
    ELSE [kind |-> "raise", err |-> "Missing target columns"]

\* The composite score reads the three columns by name.
composite_engagement(columns) ==
    IF TargetColumns \subseteq columns
    THEN [kind |-> "ok", err |-> ""]
    ELSE [kind |-> "raise", err |-> "KeyError"]

\* EngagementModel has no method train_with_optimization: the call raises
\* before anything is trained.
train_with_optimization(self, n_trials) ==
    [self |-> self, kind |-> "raise", err |-> "AttributeError", trials |-> 0]

\* ---- the runs the script is checked on ----

TrainingRuns == [algorithm : {"random_forest", "xgboost"},
                 target : Range(Targets),
                 timestamp : 1..Len(Timestamps)]
TrainingPaths == {ModelPath(model_filename(r)) : r \in TrainingRuns}
                    \cup {MetadataPath(model_filename(r)) : r \in TrainingRuns}

NTrials == {2, 100}

TrainingArgs == [model_type : {"random_forest", "xgboost"},
                 target : Range(Targets),
                 optimize : BOOLEAN,
                 n_trials : NTrials]

\* The features split_data hands on: every column but the targets, the
\* identifiers and the text.
TrainingFrames == {Frame(Without("post_text"), PostsA),
                   Frame(Without("post_text"), PostsC)}

\* The job's position in run_pipeline and what it has produced so far.
NewJob(args, columns, df, same_dir) ==
    [pc |-> "step1", args |-> args, columns |-> columns, df |-> df,
     same_dir |-> same_dir, X_train |-> None, timestamp |-> 0, trials |-> 0,
     document |-> None, error |-> "", exit |-> None]

Failed(j, err) == [j EXCEPT !.pc = "failed", !.error = err]

InitTraining ==
    /\ \E args \in TrainingArgs, columns \in SUBSET TargetColumns,
          df \in TrainingFrames, same_dir \in BOOLEAN :
          job = NewJob(args, columns, df, same_dir)
    /\ em = None
    /\ fe = None
    /\ disk = [p \in TrainingPaths |-> None]
    /\ fedisk = NoPipelineFiles
    /\ saved = <<>> /\ fesaved = <<>>
    /\ NoCalls
    /\ NoRecommendationCall /\ NoRequests /\ NoPreprocessCall

\* Step 1: load, preprocess, the composite score when the target is
\* 'engagement', and the split.
LoadAndSplit ==
    /\ job.pc = "step1"
    /\ LET composite == IF job.args.target = "engagement"
                        THEN composite_engagement(job.columns)
                        ELSE [kind |-> "ok", err |-> ""]
           split == split_data(job.columns)
       IN job' = IF composite.kind = "raise" THEN Failed(job, composite.err)
                 ELSE IF split.kind = "raise" THEN Failed(job, split.err)
                 ELSE [job EXCEPT !.pc = "step2"]
    /\ UNCHANGED <<req, pin, pout, emVars, feVars, callVars, recVars>>

\* Step 2: the pipeline is fitted on the training features and transforms
\* them.
EngineerFeatures ==
    /\ job.pc = "step2"
    /\ LET fitted == fit(NewPipeline, job.df)
           X == transform(fitted.self, job.df)
       IN /\ fe' = Some(fitted.self)
          /\ job' = IF fitted.kind = "raise" THEN Failed(job, fitted.err)
                    ELSE IF X.kind = "raise" THEN Failed(job, X.err)
                    ELSE [job EXCEPT !.pc = "step3", !.X_train = X.value]
    /\ UNCHANGED <<req, pin, pout, emVars, fedisk, fesaved, callVars, recVars>>

\* Step 3: a model of the chosen type is constructed and trained, with the
\* optimizing call when --optimize was given and with plain train(X, y)
\* otherwise.
TrainModel ==
    /\ job.pc = "step3"
    /\ \E w \in {Ordinary, Following}, fail \in {"none", "fit"} :
          LET model == NewModel(job.args.model_type)
              r == IF job.args.optimize
                   THEN train_with_optimization(model, job.args.n_trials)
                   ELSE train(model, Val(job.X_train).columns, w, FALSE, FALSE,
                              18, 1230, fail)
          IN /\ em' = Some(r.self)
             /\ job' = IF r.kind = "raise" THEN Failed(job, r.err)
                       ELSE [job EXCEPT !.pc = "step4",
                                        !.trials = IF job.args.optimize
                                                   THEN r.trials ELSE 0]
    /\ UNCHANGED <<req, pin, pout, disk, saved, feVars, callVars, recVars>>

\* Step 4, first write: the timestamp is taken and model.save writes the
\* regressor and then the metadata into the model's own directory.
SaveModel ==
    /\ job.pc = "step4"
    /\ \E t \in 1..Len(Timestamps), io \in {"ok", "model", "metadata"} :
          LET name == model_filename([algorithm |-> job.args.model_type,
                                      target |-> job.args.target, timestamp |-> t])
              r == save(Val(em), disk, name, io)
          IN /\ disk' = r.dir
             /\ job' = IF r.kind = "raise" THEN Failed([job EXCEPT !.timestamp = t], r.err)
                       ELSE [job EXCEPT !.pc = "pipeline", !.timestamp = t]
    /\ UNCHANGED <<req, pin, pout, em, saved, feVars, callVars, recVars>>

\* Step 4, second write: the pipeline goes to the output directory under
\* the same timestamp.
SaveFeatureEngineering ==
    /\ job.pc = "pipeline"
    /\ \E io \in {"ok", "io"} :
          LET r == save_pipeline(Val(fe), fedisk, fe_filename(job.timestamp), io)
          IN /\ fedisk' = r.files
             /\ job' = IF r.kind = "raise" THEN Failed(job, r.err)
                       ELSE [job EXCEPT !.pc = "document"]
    /\ UNCHANGED <<req, pin, pout, emVars, fe, fesaved, callVars, recVars>>

\* Step 4, third write: the JSON document additional_metadata_<timestamp>.
SaveDocument ==
    /\ job.pc = "document"
    /\ job' = [job EXCEPT !.pc = "done",
                          !.document = Some([model_type |-> job.args.model_type,
                                             target |-> job.args.target,
                                             timestamp |-> job.timestamp])]
    /\ UNCHANGED <<req, pin, pout, emVars, feVars, callVars, recVars>>

\* main: 0 when run_pipeline returned, 1 when it raised.
Exit ==
    /\ job.pc \in {"done", "failed"}
    /\ job' = [job EXCEPT !.pc = "exited",
                          !.exit = Some(IF job.pc = "done" THEN 0 ELSE 1)]
    /\ UNCHANGED <<req, pin, pout, emVars, feVars, callVars, recVars>>

NextTraining ==
    \/ LoadAndSplit
    \/ EngineerFeatures
    \/ TrainModel
    \/ SaveModel
    \/ SaveFeatureEngineering
    \/ SaveDocument
    \/ Exit

SpecTraining == InitTraining /\ [][NextTraining]_vars

-----------------------------------------------------------------------------
(***************************************************************************)
(* Properties of recommend_post_time                                       *)
(***************************************************************************)

RecReturned == rout # None
RecResult == Val(rout)
RecNames == Val(IF rin.feature_cols = None THEN rin.feature_names ELSE rin.feature_cols)

\* The total the regressor gives the input row at (day, hour), every other
\* entry as handed in.
TotalAt(day, hour) ==
    RegTotal(Val(rin.model),
             [[rin.X EXCEPT ![IndexOf(RecNames, "hour_of_day")] = hour]
                     EXCEPT ![IndexOf(RecNames, "day_of_week")] = day])

\* The grid search ran to its end: a numpy row, a fitted regressor and both
\* time features among the names.
RecSearched ==
    /\ RecReturned
    /\ rin.xkind = "ndarray"
    /\ rin.model # None
    /\ (rin.feature_cols # None \/ rin.feature_names # None)
    /\ {"hour_of_day", "day_of_week"} \subseteq Range(RecNames)

\* C9: whenever recommend_post_time returns a datetime, the chosen day and
\* hour lie in 0..6 and 0..23, the datetime falls on that weekday at that
\* hour, and it is strictly later than the call time.
C9_FutureSlot ==
    (RecReturned /\ RecResult.kind = "datetime") =>
        LET dt == Val(RecResult.dt)
            best_day == Val(RecResult.best_day)
            best_hour == Val(RecResult.best_hour)
        IN /\ best_day \in 0..(Days - 1)
           /\ best_hour \in 0..(Hours - 1)
           /\ Weekday(dt) = best_day
           /\ dt.hour = best_hour
           /\ DtLess(rin.now, dt)

\* C9 witness: a datetime was returned for a call made on the chosen weekday
\* within the chosen hour, past the full hour.
C9_Witness ==
    /\ RecReturned
    /\ RecResult.kind = "datetime"
    /\ Val(RecResult.best_day) = Weekday(rin.now)
    /\ Val(RecResult.best_hour) = rin.now.hour
    /\ rin.now.minute > 0

\* C10 (as claimed): whenever the grid search runs, all 168 combinations are
\* evaluated with every other entry of the row held fixed, and the returned
\* combination has the maximal total of the 168, whatever the totals are.
C10_ReturnsArgmax ==
    RecSearched =>
        /\ RecResult.ncalls = Days * Hours
        /\ \A i \in 1..Len(rin.X) :
              RecNames[i] \notin {"hour_of_day", "day_of_week"}
                  => RecResult.X_copy[i] = rin.X[i]
        /\ RecResult.kind = "datetime"
        /\ \A d \in 0..(Days - 1), h \in 0..(Hours - 1) :
              TotalAt(Val(RecResult.best_day), Val(RecResult.best_hour)) >= TotalAt(d, h)

-----------------------------------------------------------------------------
(***************************************************************************)
(* Properties of EngagementModel                                           *)
(***************************************************************************)

Called(op) == ret # None /\ Val(ret).op = op
LastCall == Val(ret)

\* A model that has never been trained or loaded.
Uninitialized(m) == m = NewModel(m.model_type)

\* Two regressors with the same algorithm, weights and fitted layout.
SameFit(a, b) ==
    /\ a.alg = b.alg
    /\ a.weights = b.weights
    /\ a.fit_names = b.fit_names

\* Two models with the same metadata fields.
SameMetadata(a, b) ==
    /\ a.model_type = b.model_type
    /\ a.feature_names = b.feature_names
    /\ a.target_names = b.target_names
    /\ a.metrics = b.metrics
    /\ a.feature_importance = b.feature_importance

\* Model m holds exactly the metadata md.
HoldsMetadata(m, md) ==
    /\ m.model_type = md.model_type
    /\ m.feature_names = md.feature_names
    /\ m.target_names = md.target_names
    /\ m.metrics = md.metrics
    /\ m.feature_importance = md.feature_importance

\* C4 (as claimed): on an Uninitialized model each of predict,
\* get_feature_importance and save fails with a 'not trained' error, returns
\* no value and leaves the model and the model directory unchanged.
C4_UninitializedFails ==
    (/\ ret # None
     /\ LastCall.op \in {"predict", "get_feature_importance", "save"}
     /\ Uninitialized(LastCall.before))
    => /\ LastCall.kind = "raise"
       /\ LastCall.err = "not trained"
       /\ LastCall.value = None
       /\ em[LastCall.obj] = LastCall.before
       /\ disk = LastCall.disk_before

\* C6 (as claimed): load(name) fails with not-found when either artifact is
\* absent, and after any load call the model holds either all the values it
\* held before the call or all the values persisted under name.
C6_LoadAllOrNothing ==
    Called("load") =>
        LET f == Val(LastCall.arg)
            mfile == LastCall.disk_before[ModelPath(f)]
            dfile == LastCall.disk_before[MetadataPath(f)]
            now == em[LastCall.obj]
            persisted ==
                IF mfile = None \/ dfile = None \/ now.model = None THEN FALSE
                ELSE IF Val(mfile).kind # "regressor" \/ Val(dfile).kind # "metadata"
                THEN FALSE
                ELSE /\ SameFit(Val(now.model), Val(mfile).v)
                     /\ HoldsMetadata(now, Val(dfile).v)
        IN /\ (mfile = None \/ dfile = None)
                => (LastCall.kind = "raise" /\ LastCall.err = "not found")
           /\ now = LastCall.before \/ persisted

\* A fresh model has just loaded identifier f, which a complete save wrote.
RoundTrip ==
    /\ Called("load")
    /\ LastCall.kind = "ok"
    /\ Uninitialized(LastCall.before)
    /\ saved[Val(LastCall.arg)] # None

SavedModel == Val(saved[Val(LastCall.arg)])
LoadedModel == em[LastCall.obj]

\* C7 (as claimed): after m.save(n), a fresh model that loads n holds the
\* same regressor, model_type, feature_names, target_names, metrics and
\* feature_importance as m, and predict returns on any input what m's did.
C7_RoundTripIdentical ==
    RoundTrip =>
        /\ LoadedModel.model = SavedModel.model
        /\ SameMetadata(LoadedModel, SavedModel)
        /\ \A X \in PredictInputs : predict(LoadedModel, X) = predict(SavedModel, X)

\* C7 (amended): after m.save(n), a fresh model that loads n holds the same
\* fitted regressor up to its enable_categorical parameter, which load leaves
\* as saved or switches on, and the same model_type, feature_names,
\* target_names, metrics and feature_importance as m; predict on any input on
\* which m's predict returned returns the same likes, shares, comments and
\* engagement_level.
C7_RoundTrip ==
    RoundTrip =>
        /\ LoadedModel.model # None
        /\ SameFit(Val(LoadedModel.model), Val(SavedModel.model))
        /\ Val(LoadedModel.model).enable_categorical
              \in {Val(SavedModel.model).enable_categorical, Some(TRUE)}
        /\ SameMetadata(LoadedModel, SavedModel)
        /\ \A X \in PredictInputs :
              predict(SavedModel, X).kind = "ok"
                  => predict(LoadedModel, X) = predict(SavedModel, X)

\* C7 witness: a fresh model loaded what a trained model saved, and a
\* prediction the trained model returned is returned by the loaded one.
C7_Witness ==
    /\ RoundTrip
    /\ LastCall.obj # Trainer
    /\ LoadedModel.feature_importance # <<>>
    /\ \E X \in PredictInputs :
          /\ predict(SavedModel, X).kind = "ok"
          /\ predict(LoadedModel, X) = predict(SavedModel, X)

-----------------------------------------------------------------------------
(***************************************************************************)
(* Properties of FeatureEngineering                                        *)
(***************************************************************************)

\* A pipeline on which fit completed, or which loaded such a pipeline.
FittedPipeline(p) ==
    /\ p.preprocessor # None
    /\ get_feature_names(p).kind = "ok"

\* C3 (as claimed): for a fitted pipeline, transform(X) returns, for every
\* frame X (the fit set, other categories, a fitted column absent, an extra
\* column present), exactly the columns of get_feature_names(), in order.
C3_TransformColumnsFixed ==
    (Called("transform") /\ FittedPipeline(LastCall.before))
    => /\ LastCall.kind = "ok"
       /\ Val(LastCall.value).columns = Val(get_feature_names(LastCall.before).value)

\* C5 (as claimed): transform on a pipeline that was neither fitted nor
\* loaded fails with a 'not fitted' error and returns no frame.
C5_UnfittedTransformFails ==
    (Called("transform") /\ LastCall.before = NewPipeline)
    => /\ LastCall.kind = "raise"
       /\ LastCall.err = "not fitted"
       /\ LastCall.value = None

\* A fresh pipeline has just loaded a path to which a fitted pipeline was
\* last written completely.
PipelineRoundTrip ==
    /\ Called("load")
    /\ LastCall.before = NewPipeline
    /\ fesaved[Val(LastCall.arg)] # None
    /\ FittedPipeline(Val(fesaved[Val(LastCall.arg)]))

SavedPipeline == Val(fesaved[Val(LastCall.arg)])
LoadedPipeline == fe[LastCall.obj]

\* C8: after p.save(path) of a fitted pipeline p, a fresh pipeline that
\* loads path succeeds, holds p's preprocessor (scaler parameters, category
\* lists), vectorizer (vocabulary, idf weights), numerical_features,
\* categorical_features and text_feature, and its transform gives on every
\* frame the outcome p's transform gives.
C8_PipelineRoundTrip ==
    PipelineRoundTrip =>
        /\ LastCall.value = Some(TRUE)
        /\ LoadedPipeline.preprocessor = SavedPipeline.preprocessor
        /\ LoadedPipeline.tfidf_vectorizer = SavedPipeline.tfidf_vectorizer
        /\ LoadedPipeline.numerical_features = SavedPipeline.numerical_features
        /\ LoadedPipeline.categorical_features = SavedPipeline.categorical_features
        /\ LoadedPipeline.text_feature = SavedPipeline.text_feature
        /\ \A X \in Frames : transform(LoadedPipeline, X) = transform(SavedPipeline, X)

\* C8 witness: the server loaded the dictionary the fitter's save wrote, it
\* holds a fitted vocabulary and one-hot categories, and a frame transforms
\* to scaled, one-hot and tf-idf columns.
C8_Witness ==
    /\ PipelineRoundTrip
    /\ LastCall.obj # Fitter
    /\ Val(LastCall.disk_before[Val(LastCall.arg)]).kind = "dict"
    /\ LoadedPipeline.tfidf_vectorizer # None
    /\ Val(LoadedPipeline.preprocessor).cat # <<>>
    /\ \E X \in Frames :
          /\ transform(LoadedPipeline, X).kind = "ok"
          /\ "tfidf_dog" \in Range(Val(transform(LoadedPipeline, X).value).columns)
          /\ transform(LoadedPipeline, X) = transform(SavedPipeline, X)

-----------------------------------------------------------------------------
(***************************************************************************)
(* Properties of the /predict handler                                      *)
(***************************************************************************)

\* A /predict request has just been answered with a response.
Responded ==
    /\ Called("predict_engagement")
    /\ LastCall.status = 200

Response == Val(LastCall.response)
ServingModel == Val(em)

\* C1: every response of /predict carries a confidence_score of at least
\* 0.5 and at most 0.95, whatever the text, hashtags, counts, account age,
\* predictions and stored validation R2, and also when the computation
\* fails and the fallback value is used.
C1_ConfidenceInRange ==
    Responded =>
        /\ Response.confidence_score >= Conf(10)
        /\ Response.confidence_score <= Conf(19)

\* C1 witness: a response to a post with empty text, no hashtags and zero
\* followers and following whose combined score lies below 0.5 and whose
\* confidence_score is 0.5.
C1_Witness ==
    /\ Responded
    /\ LastCall.post.post_text.len = 0
    /\ LastCall.post.hashtags = <<>>
    /\ LastCall.post.followers_count = Some(0)
    /\ LastCall.post.following_count = Some(0)
    /\ LastCall.post.account_age # None
    /\ CombinedScore(ServingModel, LastCall.post, Response) < Conf(10)
    /\ Response.confidence_score = Conf(10)

\* The model of the process holds a non-empty feature_names list.
HasFeatureNames(m) == m.feature_names # None /\ Val(m.feature_names) # <<>>

\* C2: whenever the loaded model has a feature_names list, the frame handed
\* to predict has exactly the columns of feature_names in their order, with
\* 0 for every name extraction and transform did not produce and the
\* produced value for every other, and the request reaches predict and is
\* not refused there for its columns.
C2_AlignedToFeatureNames ==
    (Called("predict_engagement") /\ HasFeatureNames(ServingModel)
     /\ ~PrepareRaises(LastCall.post))
    => /\ LastCall.handed # None
       /\ LET X == Val(LastCall.handed)
              F == Val(LastCall.extracted)
              names == Val(ServingModel.feature_names)
          IN /\ X.columns = names
             /\ Len(X.row) = Len(names)
             /\ \A i \in 1..Len(names) :
                   IF names[i] \in Range(F.columns)
                   THEN X.row[i] = F.row[IndexOf(F.columns, names[i])]
                   ELSE X.row[i] = 0
             /\ predict(ServingModel, [row |-> X.row, has_object |-> FALSE]).kind = "ok"

\* C2 witness: a response for which the model's feature_names held a name
\* that extraction and transform did not produce and lacked a column they
\* did produce.
C2_Witness ==
    /\ Responded
    /\ HasFeatureNames(ServingModel)
    /\ LastCall.handed # None
    /\ \E f \in Range(Val(ServingModel.feature_names)) :
          f \notin Range(Val(LastCall.extracted).columns)
    /\ \E c \in Range(Val(LastCall.extracted).columns) :
          c \notin Range(Val(ServingModel.feature_names))
    /\ Val(LastCall.handed).columns = Val(ServingModel.feature_names)


\* The feature names the handler passes to recommend_post_time.
ServingNames ==
    IF ServingModel.feature_names = None THEN {}
    ELSE Range(Val(ServingModel.feature_names))
LacksTimeFeature ==
    "hour_of_day" \notin ServingNames \/ "day_of_week" \notin ServingNames

\* A request whose prediction succeeded, so that the handler went on to the
\* recommendation, and the prediction it got.
Predicted == Called("predict_engagement") /\ LastCall.recommendation # None
Prediction ==
    Val(predict(ServingModel,
                [row |-> Val(LastCall.handed).row, has_object |-> FALSE]).value)

\* The response was built and either returned or refused by validation for
\* its engagement_level only.
Returned == Responded \/ Prediction.engagement_level = "nan"

\* C11: when hour_of_day or day_of_week is not among the feature names
\* handed to recommend_post_time, or no names are handed and the model has
\* none of its own or lacks one of the two, the method returns None: it
\* does not raise and does not call the regressor.  A /predict request on
\* such a model carries a null recommended_post_time, and the rest of its
\* response is returned.
C11_NoTimeFeatureNoRecommendation ==
    /\ (RecReturned /\ (rin.feature_cols = None /\ rin.feature_names = None))
       => RecResult.kind = "none" /\ RecResult.ncalls = 0
    /\ (RecReturned /\ ~(rin.feature_cols = None /\ rin.feature_names = None)
           /\ ("hour_of_day" \notin Range(RecNames)
                  \/ "day_of_week" \notin Range(RecNames)))
       => RecResult.kind = "none" /\ RecResult.ncalls = 0
    /\ (Predicted /\ LacksTimeFeature)
       => /\ Val(LastCall.recommendation) = [kind |-> "none", ncalls |-> 0]
          /\ Returned
          /\ Responded
               => /\ Response.recommended_post_time = None
                  /\ Response.likes = Prediction.likes
                  /\ Response.shares = Prediction.shares
                  /\ Response.comments = Prediction.comments
                  /\ Response.engagement_level = Prediction.engagement_level

C11_Witness ==
    /\ Predicted /\ LacksTimeFeature /\ Responded
    /\ "hour_of_day" \in ServingNames
    /\ Response.recommended_post_time = None
    /\ Response.likes > 0

\* The level the thresholds 50 and 200 give a total.
LevelOf(total) ==
    IF total <= 50 THEN "low" ELSE IF total <= 200 THEN "medium" ELSE "high"

\* C12: every row predict returns has an engagement_level among low, medium
\* and high: low for a summed prediction of at most 50, medium above 50 and
\* at most 200, high above 200, a sum of 0 or below included.
C12_LevelAssigned ==
    (Called("predict") /\ LastCall.kind = "ok")
    => LET p == Val(LastCall.value)
       IN /\ p.engagement_level \in {"low", "medium", "high"}
          /\ p.engagement_level = LevelOf(p.likes + p.shares + p.comments)

\* C19: constructing an EngagementModel with a selector outside
\* random_forest, gradient_boosting, xgboost and lightgbm fails, so no
\* object with an unknown model_type exists, before or after any call.
C19_UnknownTypeRejected ==
    \A o \in Objects : em[o].model_type \in SupportedTypes

\* The models the directory holds, and those of the latest training run
\* among them.
ModelFiles == {f \in RunNames : disk[ModelPath(f)] # None}
MostRecent ==
    {f \in ModelFiles : \A g \in ModelFiles : RunOf(g).timestamp <= RunOf(f).timestamp}

\* The process has answered its first request.
Started == em # None /\ fe # None

\* C13: the first request loads the persisted model with the most recent
\* timestamp among all models of the directory, whatever algorithm and
\* target their names begin with.
C13_MostRecentModelLoaded ==
    (Started /\ ModelFiles # {})
    => \E f \in MostRecent : ServingModel = load(NewModel("xgboost"), disk, f).self

\* The identifier get_model loaded, and the pipeline the same training run
\* saved.
LoadedName == LatestModel(ModelFiles)
PairedPipeline ==
    load_pipeline(NewPipeline, fedisk, fe_filename(RunOf(LoadedName).timestamp)).self

\* C14: the pipeline the process holds is the one saved by the training run
\* of the model it loaded, whichever runs the directory holds; it never
\* holds a model with the pipeline of another run.
C14_PipelinePairedWithModel ==
    (Started /\ ModelFiles # {}
       /\ load(NewModel("xgboost"), disk, LoadedName).kind = "ok")
    => Val(fe) = PairedPipeline

\* A get_model step of some client.
Resolving == \E c \in Clients : req[c].pc = "idle" /\ req'[c].pc = "resolved"

\* C15: in one process the directory is scanned and the load attempted
\* exactly once, by the first request to resolve get_model, whether the
\* load succeeds or fails and however the requests interleave; every later
\* request is handed the objects the process already holds.
C15_LoadedOnce ==
    /\ [](calls <= 1 /\ (Started <=> calls = 1))
    /\ [][(Resolving /\ Started) => (em' = em /\ fe' = fe /\ calls' = calls)]_vars

\* Two requests were in flight before either was handled, the load having
\* failed or found nothing.
C15_Witness ==
    /\ \A c \in Clients : req[c].pc = "resolved"
    /\ calls = 1
    /\ Started /\ ServingModel.model = None

\* C18: once the process holds its model and pipeline no handler changes
\* them: the model's regressor, feature_names, target_names, metrics and
\* feature_importance and the pipeline's fitted state stay as loaded.
C18_HandlersReadOnly ==
    [][Started => (em' = em /\ fe' = fe)]_vars

ServingPipeline == Val(fe)

\* A request whose input extraction accepted.
Extracted == Called("predict_engagement") /\ LastCall.extracted # None

\* C17: a request never fails for want of a fit: when the pipeline holds no
\* fitted preprocessor, or the model was never fitted or loaded (nothing in
\* the directory, or a load that failed), the handler goes on with the raw
\* features and a response is returned.
C17_NotFittedStillAnswers ==
    (Extracted /\ (ServingPipeline.preprocessor = None \/ ServingModel.model = None))
    => /\ ServingPipeline.preprocessor = None
            => LastCall.extracted = Some(RawFeatures(LastCall.post, LastCall.now))
       /\ Responded \/ (Predicted /\ Prediction.engagement_level = "nan")

\* The guarded steps of the last request that failed: the transform, the
\* confidence computation and the recommendation.
TransformFailed ==
    /\ ServingPipeline.preprocessor # None
    /\ transform(ServingPipeline,
                 [columns |-> ProcessedColumns,
                  rows |-> <<ProcessedRow(LastCall.post, LastCall.now)>>]).kind = "raise"
ConfidenceFailed == LastCall.post.account_age = None
RecommendationFailed == Val(LastCall.recommendation).kind = "raise"

\* What recommend_post_time gives on the frame handed to predict.
Recommendation ==
    recommend_post_time(ServingModel.model, ServingModel.feature_names,
                        Val(LastCall.handed).row, "ndarray",
                        ServingModel.feature_names, LastCall.now)

DeclaredRawFeatures ==
    {"text_length", "word_count", "avg_word_length",
     "sentiment_compound", "sentiment_positive", "sentiment_negative",
     "sentiment_neutral",
     "mention_count", "url_count", "exclamation_count", "question_count",
     "hashtag_count", "avg_hashtag_length", "follower_following_ratio",
     "hour_of_day", "day_of_week", "month", "is_weekend", "time_category",
     "media_type"}

\* C20: preprocess never fails, and its output holds every declared raw
\* feature with a value, also for a null text and for optional fields that
\* are absent or null, which give 0 or "unknown".
C20_PreprocessTotal ==
    pout # None
    => /\ Val(pout).kind = "ok"
       /\ DeclaredRawFeatures \subseteq Val(pout).df.cols
       /\ \A c \in DeclaredRawFeatures \cap Val(pout).df.cols :
             Val(pout).df.row[c].k = "val"

\* C21: once an EngagementModel holds a fitted regressor, no later call
\* (train, load, predict, save, get_feature_importance) changes that
\* regressor or its feature_names; metrics and feature importance may be
\* recomputed, for the same fitted weights only.
C21_FittedFrozen ==
    [][\A o \in Objects :
          em[o].model # None
          => /\ em'[o].model = em[o].model
             /\ em'[o].feature_names = em[o].feature_names]_vars

\* C26: after any train and load calls, failed ones included, feature_names
\* is the column list the held regressor was fitted on, and is unset exactly
\* when no regressor is held.
C26_NamesMatchRegressor ==
    \A o \in Objects :
        IF em[o].model = None THEN em[o].feature_names = None
        ELSE em[o].feature_names = Some(Val(em[o].model).fit_names)

\* C27: after a successful train the stored metrics describe the regressor
\* now held: a 'val' record exists exactly when this call was given a
\* validation split, and every record was computed from this regressor.
C27_MetricsOfCurrentRegressor ==
    (Called("train") /\ LastCall.kind = "ok")
    => LET m == em[LastCall.obj]
       IN /\ m.metrics.train # None
          /\ Val(m.metrics.train).of = Val(m.model).weights
          /\ m.metrics.val # None <=> Val(LastCall.arg).has_val
          /\ m.metrics.val # None => Val(m.metrics.val).of = Val(m.model).weights

\* A model whose last fit ran to its end: it holds a regressor, the names it
\* was fitted on and the importance ranking computed from both.
Complete(m) ==
    /\ m.model # None
    /\ m.feature_names # None
    /\ m.feature_importance
          = calculate_feature_importance(Val(m.model), Val(m.feature_names))

Descending(ranking) ==
    \A i \in 1..(Len(ranking) - 1) : ranking[i][2] >= ranking[i + 1][2]

Entries(ranking) == {ranking[i] : i \in 1..Len(ranking)}

\* C24: a successful train leaves the importance ranking of the fitted
\* regressor, a fresh model that loads a saved one holds the same ranking in
\* the same order, and get_feature_importance(top_n) on such a model returns
\* min(top_n, number of features) entries for every top_n >= 0 (all of them
\* when top_n is omitted), in descending order of importance, each returned
\* importance at least any importance left out.
C24_TopFeatures ==
    /\ (Called("train") /\ LastCall.kind = "ok") => Complete(em[LastCall.obj])
    /\ (RoundTrip /\ Complete(SavedModel))
          => LoadedModel.feature_importance = SavedModel.feature_importance
    /\ (Called("get_feature_importance") /\ Complete(LastCall.before))
          => LET all == LastCall.before.feature_importance
                 n == Len(Val(LastCall.before.feature_names))
                 top_n == Val(LastCall.arg)
                 top == Val(LastCall.value)
             IN /\ LastCall.kind = "ok"
                /\ Len(top) = IF top_n = None THEN n ELSE Min(Val(top_n), n)
                /\ Cardinality(Entries(top)) = Len(top)
                /\ Entries(top) \subseteq Entries(all)
                /\ Descending(top)
                /\ \A kept \in Entries(top) : \A left \in Entries(all) \ Entries(top) :
                      kept[2] >= left[2]

\* C24 witness: two of three features were asked of a fitted model, and the
\* one left out is strictly less important than both returned.
C24_Witness ==
    /\ Called("get_feature_importance")
    /\ Complete(LastCall.before)
    /\ Val(LastCall.arg) = Some(2)
    /\ Len(LastCall.before.feature_importance) = 3
    /\ Len(Val(LastCall.value)) = 2
    /\ Val(LastCall.value)[2][2] > LastCall.before.feature_importance[3][2]

-----------------------------------------------------------------------------
(***************************************************************************)
(* Properties of the training script                                       *)
(***************************************************************************)

LacksTarget == ~(TargetColumns \subseteq job.columns)

NothingPersisted ==
    /\ \A p \in DOMAIN disk : disk[p] = None
    /\ \A p \in DOMAIN fedisk : fedisk[p] = None
    /\ job.document = None

\* C22: a run on a dataset lacking one of likes, shares, comments fails in
\* step 1 for every target selector, exits with status 1 and an error, and
\* writes no model artifact, metadata artifact, pipeline artifact or JSON
\* document.
C22_MissingTargetFatal ==
    LacksTarget
    => /\ job.pc \in {"step1", "failed", "exited"}
       /\ job.pc # "step1" => job.error \in {"KeyError", "Missing target columns"}
       /\ job.pc = "exited" => job.exit = Some(1)
       /\ NothingPersisted

\* C22 witness: a run for the target 'likes' on a dataset without shares
\* has exited with status 1.
C22_Witness ==
    /\ job.pc = "exited"
    /\ job.args.target = "likes"
    /\ job.columns = {"likes", "comments"}
    /\ job.exit = Some(1)
    /\ NothingPersisted

\* C23: a run with --optimize trains through train_with_optimization(X, y,
\* n_trials): once training is over, exactly n_trials trials were run and
\* the model is fitted with the best parameters found.
C23_OptimizeRunsTrials ==
    (job.args.optimize /\ job.pc \notin {"step1", "step2", "step3"} /\ job.X_train # None)
    => /\ job.error = ""
       /\ job.trials = job.args.n_trials
       /\ em # None /\ Val(em).model # None

\* C28: in every state of the model directory, a regressor file has its
\* metadata file and the pipeline file of the same timestamp next to it.
C28_ArtifactsComplete ==
    \A r \in TrainingRuns :
        disk[ModelPath(model_filename(r))] # None
        => /\ disk[MetadataPath(model_filename(r))] # None
           /\ Val(disk[MetadataPath(model_filename(r))]).kind = "metadata"
           /\ fedisk[fe_filename(r.timestamp)] # None
           /\ job.same_dir

\* C30: recommend_post_time never raises: whatever the receiver, the input
\* and the totals over the 168 combinations, the call returns a datetime or
\* None.
C30_NeverRaises ==
    RecReturned => RecResult.kind \in {"datetime", "none"}

\* C29: the confidence_score of a /predict response never exceeds 0.9, so
\* the upper clamp at 0.95 never decides it.
C29_AtMostNineTenths ==
    Responded => Response.confidence_score <= Conf(18)

\* C29 witness: a response of a model whose validation R2 is above 0.9 to a
\* post that no adjustment applies to has confidence_score 0.9.
C29_Witness ==
    /\ Responded
    /\ ServingModel.metrics.val # None
    /\ Val(ServingModel.metrics.val).r2 > 18
    /\ LastCall.post.account_age # None
    /\ Response.confidence_score = Conf(18)

\* The row the handler built for the request just answered.
RequestRow == ProcessedRow(LastCall.post, LastCall.now)

TimeCategories == {"morning", "afternoon", "evening", "night"}

\* C25: for the request's hour and weekday, the time_category the Feature
\* Extractor computes (morning [5,12), afternoon [12,17), evening [17,21),
\* night otherwise) and its is_weekend (1 iff day_of_week >= 5) agree with
\* the one-hot columns the handler builds: exactly time_category_<that
\* category> and is_weekend_<that value> equal 1.
C25_SameBuckets ==
    (Called("predict_engagement") /\ ~PrepareRaises(LastCall.post))
    => /\ \A c \in TimeCategories :
             RequestRow["time_category_" \o c] = Indicator(RequestRow["time_category"] = c)
       /\ RequestRow["is_weekend"] = (IF RequestRow["day_of_week"] >= 5 THEN "1" ELSE "0")
       /\ RequestRow["is_weekend_1"] = Indicator(RequestRow["is_weekend"] = "1")
       /\ RequestRow["is_weekend_0"] = Indicator(RequestRow["is_weekend"] = "0")

====
